---- MODULE Spec2Model ----
(***************************************************************************)
(* A model of the DCF valuation engine, utils/dcf_calc.py (DCFCalculator). *)
(*                                                                         *)
(* Number representation.  The engine works on IEEE doubles; the model     *)
(* holds them in fixed point:                                              *)
(*   - a rate ARGUMENT (wacc, terminal_growth, fcf_growth_rate, inflation, *)
(*     sbc_percent_of_fcf, annual_share_change, recession_prob) is the     *)
(*     integer 100*r, i.e. a whole number of percent (ArgOne is 1.0);      *)
(*   - a RESOLVED rate (g_nom, wacc_nom, tg_nom and every Monte Carlo      *)
(*     sample) is the integer 10000*r, i.e. basis points (One is 1.0), so  *)
(*     that (1+a)(1+b)-1 of two arguments is exact;                        *)
(*   - money is a whole number of MoneyUnit dollars;                       *)
(*   - a double that may be NaN or infinite is a record (Num, NaN, Inf).   *)
(* Divisions round towards minus infinity.                                 *)
(***************************************************************************)
EXTENDS Integers, Sequences, FiniteSets, TLC

VARIABLES
    rng,        \* state of the process-wide numpy generator (np.random)
    calc,       \* the object the calls are made on: the fields of the
                \* DCFCalculator instance or of the rate limiter, or NoCalc
    args,       \* arguments of the calculate_dcf_valuation call made, or NoArgs
    outcome,    \* how that call ended: "none", "returned" or the exception raised
    result,     \* the dict the call returned, or NoResult
    trace,      \* the internal methods the call entered, in order
    mc,         \* what _monte_carlo_vectorized last computed, or NoMc
    instances,  \* the DCFCalculator instances of a longer session, in order
    caller,     \* what the caller holds: the list and the CapitalBridge a
                \* session passes, or the body of an HTTP request
    history,    \* the session's constructions and calls, in order
    data_fetcher,   \* the fields of the server's FinancialDataFetcher
    request_counts, \* the rate limiters' stores: per client, the times recorded
    clock           \* time.time() of the server, in seconds

session == <<instances, caller, history>>
server == <<data_fetcher, request_counts, clock>>
vars == <<rng, calc, args, outcome, result, trace, mc, session, server>>

----------------------------------------------------------------------------
(* Fixed point.                                                            *)

ArgOne == 10 * 10
One == 100 * 100
ArgToResolved(r) == r * (One \div ArgOne)

Min(a, b) == IF a <= b THEN a ELSE b
Max(a, b) == IF a >= b THEN a ELSE b
Clip(x, lo, hi) == Max(lo, Min(x, hi))

\* <<q, r>> with x * a = q * b + r and 0 <= r < b, for a >= 0 and b > 0,
\* by doubling, so that no intermediate value exceeds 3 * b or the quotient
RECURSIVE MulDivQR(_, _, _)
MulDivQR(x, a, b) ==
    IF a = 0 THEN <<0, 0>>
    ELSE LET h == MulDivQR(x, a \div 2, b)
             q2 == 2 * h[1] + (IF a % 2 = 1 THEN x \div b ELSE 0)
             r2 == 2 * h[2] + (IF a % 2 = 1 THEN x % b ELSE 0)
         IN  <<q2 + (r2 \div b), r2 % b>>

\* floor(x * a / b) for b # 0, without forming x * a when it may not fit
MulDiv(x, a, b) ==
    LET flip == (a < 0) # (b < 0)
        aa == IF a < 0 THEN -a ELSE a
        bb == IF b < 0 THEN -b ELSE b
        xx == IF flip THEN -x ELSE x
    IN  IF aa <= 40000 /\ bb <= 40000
            THEN (xx \div bb) * aa + ((xx % bb) * aa) \div bb
            ELSE MulDivQR(xx, aa, bb)[1]

Sign(x) == IF x > 0 THEN 1 ELSE IF x < 0 THEN -1 ELSE 0

(* Doubles that may be non-finite.                                         *)
Num(v) == [k |-> "num", v |-> v]
NaN == [k |-> "nan", v |-> 0]
Inf(s) == [k |-> "inf", v |-> s]
IsNaN(x) == x.k = "nan"
\* np.isfinite replaced by a test for NaN alone
IsNotNaN(x) == x.k # "nan"
IsFinite(x) == x.k = "num"
\* x > c as an IEEE comparison: every comparison with NaN is false
FGt(x, c) == (x.k = "num" /\ x.v > c) \/ (x.k = "inf" /\ x.v = 1)

FAdd(x, y) ==
    IF IsNaN(x) \/ IsNaN(y) THEN NaN
    ELSE IF x.k = "inf" /\ y.k = "inf" THEN (IF x.v = y.v THEN x ELSE NaN)
    ELSE IF x.k = "inf" THEN x
    ELSE IF y.k = "inf" THEN y
    ELSE Num(x.v + y.v)

\* x * a / b for a double x and fixed-point factors a, b (b may be zero)
FMulDiv(x, a, b) ==
    IF IsNaN(x) THEN NaN
    ELSE IF x.k = "inf" THEN
        (IF a = 0 THEN NaN
         ELSE Inf(x.v * Sign(a) * (IF b < 0 THEN -1 ELSE 1)))
    ELSE IF b = 0 THEN
        (IF x.v = 0 \/ a = 0 THEN NaN ELSE Inf(Sign(x.v) * Sign(a)))
    ELSE Num(MulDiv(x.v, a, b))

\* x / y scaled by s, for doubles x and y
FDiv(x, y, s) ==
    IF IsNaN(x) \/ IsNaN(y) THEN NaN
    ELSE IF y.k = "inf" THEN (IF x.k = "inf" THEN NaN ELSE Num(0))
    ELSE FMulDiv(x, s, y.v)

RECURSIVE FSum(_)
FSum(s) == IF s = <<>> THEN Num(0) ELSE FAdd(s[1], FSum(Tail(s)))

----------------------------------------------------------------------------
(* Input normalisation.                                                    *)

\* dollars per money unit, and the default base FCF of $1B in money units
MoneyUnit == 100 * 100
DefaultBaseFcf == 1000000000 \div MoneyUnit

\* _validate_inputs with the horizon bounds themselves refused
_validate_inputs_open_horizon(wacc, tg, years) ==
    IF years <= 3 \/ years >= 10
        THEN "ValueError: years must be between 3 and 10"
    ELSE IF wacc <= tg
        THEN "ValueError: WACC must be strictly greater than terminal growth"
    ELSE IF wacc < 0 \/ tg < 0
        THEN "ValueError: WACC and terminal growth must be non negative"
    ELSE "ok"

\* _validate_inputs letting a WACC equal to the terminal growth through
_validate_inputs_equal_allowed(wacc, tg, years) ==
    IF years < 3 \/ years > 10
        THEN "ValueError: years must be between 3 and 10"
    ELSE IF wacc < tg
        THEN "ValueError: WACC must be strictly greater than terminal growth"
    ELSE IF wacc < 0 \/ tg < 0
        THEN "ValueError: WACC and terminal growth must be non negative"
    ELSE "ok"

\* _validate_inputs refusing negative rates only when both are negative
_validate_inputs_both_negative(wacc, tg, years) ==
    IF years < 3 \/ years > 10
        THEN "ValueError: years must be between 3 and 10"
    ELSE IF wacc <= tg
        THEN "ValueError: WACC must be strictly greater than terminal growth"
    ELSE IF wacc < 0 /\ tg < 0
        THEN "ValueError: WACC and terminal growth must be non negative"
    ELSE "ok"

\* _validate_inputs: the exception it raises, or "ok"
_validate_inputs(wacc, tg, years) ==
    IF years < 3 \/ years > 10
        THEN "ValueError: years must be between 3 and 10"
    ELSE IF wacc <= tg
        THEN "ValueError: WACC must be strictly greater than terminal growth"
    ELSE IF wacc < 0 \/ tg < 0
        THEN "ValueError: WACC and terminal growth must be non negative"
    ELSE "ok"

RECURSIVE MaxOf(_)
MaxOf(s) ==
    IF Len(s) = 1 THEN s[1]
    ELSE LET m == MaxOf(Tail(s)) IN IF s[1] >= m THEN s[1] ELSE m

\* _pick_base_fcf taking a most recent value of zero as usable
_pick_base_fcf_zero_usable(fcf_history) ==
    IF fcf_history = <<>> THEN DefaultBaseFcf
    ELSE LET most_recent == fcf_history[Len(fcf_history)]
             positives == SelectSeq(fcf_history, LAMBDA x : x > 0)
         IN  IF most_recent >= 0 THEN most_recent
             ELSE IF positives # <<>> THEN MaxOf(positives)
             ELSE DefaultBaseFcf

_pick_base_fcf(fcf_history) ==
    IF fcf_history = <<>> THEN DefaultBaseFcf
    ELSE LET most_recent == fcf_history[Len(fcf_history)]
             positives == SelectSeq(fcf_history, LAMBDA x : x > 0)
         IN  IF most_recent > 0 THEN most_recent
             ELSE IF positives # <<>> THEN MaxOf(positives)
             ELSE DefaultBaseFcf

\* lines 69-70: the stock-compensation adjustment of the base FCF
SbcAdjust(base_fcf, treat_sbc_as_cash_cost, sbc_percent_of_fcf) ==
    IF treat_sbc_as_cash_cost /\ sbc_percent_of_fcf > 0
        THEN MulDiv(base_fcf, ArgOne - sbc_percent_of_fcf, ArgOne)
        ELSE base_fcf

\* lines 74-79: (1 + r)(1 + inflation) - 1 in real mode, r itself otherwise
ToNominal(r, real_mode, inflation) ==
    IF real_mode THEN (ArgOne + r) * (ArgOne + inflation) - One
    ELSE ArgToResolved(r)

----------------------------------------------------------------------------
(* Base case projector.                                                    *)

\* x * (1 + r)^t, r in units of 1/one
RECURSIVE Compound(_, _, _, _)
Compound(x, r, t, one) ==
    IF t = 0 THEN x ELSE MulDiv(Compound(x, r, t - 1, one), one + r, one)

\* x / (1 + r)^t for a double x; (1 + r) may be zero or negative
RECURSIVE Discount(_, _, _)
Discount(x, r, t) ==
    IF t = 0 THEN x ELSE FMulDiv(Discount(x, r, t - 1), One, One + r)

_project_fcf(base_fcf, g, years) ==
    [t \in 1..years |-> Compound(base_fcf, g, t, One)]

_pv_series(cashflows, rate) ==
    [t \in 1..Len(cashflows) |-> Discount(Num(cashflows[t]), rate, t)]

\* _terminal_value with the test of line 191 turned around (wacc >= tg)
_terminal_value_test_inverted(last_fcf, wacc, tg) ==
    IF wacc >= tg
        THEN LET tgu == Min(100 * tg, 100 * wacc - 1)
             IN  MulDiv(last_fcf, 100 * One + tgu, 100 * wacc - tgu)
        ELSE MulDiv(last_fcf, One + tg, wacc - tg)

\* Gordon growth; a tg not below wacc is clipped to wacc - 1e-6, which is one
\* hundredth of a basis point, so that branch works in units of 1e-6
_terminal_value(last_fcf, wacc, tg) ==
    IF wacc <= tg
        THEN LET tgu == Min(100 * tg, 100 * wacc - 1)
             IN  MulDiv(last_fcf, 100 * One + tgu, 100 * wacc - tgu)
        ELSE MulDiv(last_fcf, One + tg, wacc - tg)

\* line 196 with simple instead of compound growth
_shares_path_linear(start_shares, annual_change, years) ==
    start_shares + MulDiv(start_shares, annual_change * years, ArgOne)

_shares_path(start_shares, annual_change, years) ==
    Compound(start_shares, annual_change, years, ArgOne)

CapitalBridge(net_debt, non_operating_assets, minority_interest, other_adjustments) ==
    [net_debt |-> net_debt, non_operating_assets |-> non_operating_assets,
     minority_interest |-> minority_interest, other_adjustments |-> other_adjustments]

\* lines 215-219 with the net debt added instead of subtracted
BridgeToEquityDebtAdded(ev, bridge) ==
    FAdd(ev, Num(bridge.net_debt + bridge.non_operating_assets
                 - bridge.minority_interest + bridge.other_adjustments))

\* lines 215-219 and 301-305: enterprise value to equity value
BridgeToEquity(ev, bridge) ==
    FAdd(ev, Num(- bridge.net_debt + bridge.non_operating_assets
                 - bridge.minority_interest + bridge.other_adjustments))

\* per-share values are held in 1/ArgOne of a money unit per share
_base_case_breakdown(base_fcf, g, wacc, tg, years, shares_out, annual_share_change, bridge) ==
    LET fcf == _project_fcf(base_fcf, g, years)
        pv_explicit == _pv_series(fcf, wacc)
        terminal_fcf == fcf[years]
        tv == _terminal_value(terminal_fcf, wacc, tg)
        pv_tv == Discount(Num(tv), wacc, years)
        ev == FAdd(FSum(pv_explicit), pv_tv)
        equity_value == BridgeToEquity(ev, bridge)
        end_shares == _shares_path(shares_out, annual_share_change, years)
    IN  [enterprise_value |-> ev,
         equity_value |-> equity_value,
         equity_value_per_share |->
             IF end_shares > 0 THEN FMulDiv(equity_value, ArgOne, end_shares) ELSE NaN,
         pv_explicit_period |-> FSum(pv_explicit),
         pv_terminal_value |-> pv_tv,
         terminal_value_gordon |-> tv,
         terminal_value_share_of_ev |->
             IF FGt(ev, 0) THEN FDiv(pv_tv, ev, One) ELSE NaN,
         fcf_projections |-> fcf,
         pv_fcf_projections |-> pv_explicit,
         terminal_fcf_year |-> terminal_fcf,
         shares_end_year |-> end_shares]

----------------------------------------------------------------------------
(* The process-wide generator, np.random.                                  *)
(* Its state is a cyclic stream of RngDigits raw draws, each one of        *)
(* RngLevels equally likely levels, packed into one integer; a draw reads  *)
(* the lowest digit and rotates the stream.  A state determines every      *)
(* later draw, and every stream of that length is some state.              *)

RngLevels == 3
RngDigits == 7

RECURSIVE Pow(_, _)
Pow(b, e) == IF e = 0 THEN 1 ELSE b * Pow(b, e - 1)

RngMod == Pow(RngLevels, RngDigits)
RngStates == 0..(RngMod - 1)

\* the raw level of the k-th draw (k = 0, 1, ...) made from state s
RawDraw(s, k) == (s \div Pow(RngLevels, k % RngDigits)) % RngLevels

\* the state after k draws: the stream rotated by k places
Advance(s, k) ==
    (s \div Pow(RngLevels, k % RngDigits))
    + (s % Pow(RngLevels, k % RngDigits)) * Pow(RngLevels, RngDigits - (k % RngDigits))

\* np.random.seed(seed): the state is a fixed function of the seed
SeedState(seed) == (seed * 911 + 1234) % RngMod

\* np.random.rand: a uniform draw in [0, 1), in units of 1/ArgOne
Uniform(level) == (level * ArgOne) \div RngLevels
\* np.random.normal(loc = 0, scale = 1): a whole number of standard deviations
StdNormal(level) == (level - 1) * 2
\* np.random.standard_t: fatter tails than the normal
StandardT(level) == (level - 1) * 5

\* a random permutation of pool, one draw per element, drawing from k on
RECURSIVE Permutation(_, _, _)
Permutation(pool, s, k) ==
    IF pool = <<>> THEN <<>>
    ELSE LET j == (RawDraw(s, k) % Len(pool)) + 1
             rest == SubSeq(pool, 1, j - 1) \o SubSeq(pool, j + 1, Len(pool))
         IN  <<pool[j]>> \o Permutation(rest, s, k + 1)

\* np.random.choice with replace = True: every index drawn on its own
ChoiceWithReplacement(n, take, s, k) ==
    [j \in 1..take |-> (RawDraw(s, k + j - 1) % n) + 1]

\* np.random.choice(arange(n), size = take, replace = False): the first take
\* elements of a permutation of the n trial indices (1..n here)
ChoiceWithoutReplacement(n, take, s, k) ==
    SubSeq(Permutation([i \in 1..n |-> i], s, k), 1, take)

----------------------------------------------------------------------------
(* Monte Carlo engine.                                                     *)

\* x * exp(z * ln(1 + sigma)) with sigma = 0.10, i.e. x * 1.1^z
RECURSIVE LogNormalNoise(_, _)
LogNormalNoise(x, z) ==
    IF z = 0 THEN x
    ELSE IF z > 0 THEN MulDiv(LogNormalNoise(x, z - 1), 11, 10)
    ELSE MulDiv(LogNormalNoise(x, z + 1), 10, 11)

\* lines 258-262: growth of one trial
SampleGrowth(base_growth, recession, z_core, t_tail) ==
    LET core_g == base_growth + 200 * z_core
        tail_g == base_growth + 400 * t_tail
        g == IF recession THEN Min(core_g, base_growth - 300)
             ELSE (7 * core_g + 3 * tail_g) \div 10
    IN  Clip(g, -3000, 4000)

\* lines 266-271 with the recession premium added after the clipping
SampleWaccRaisedAfterClip(base_wacc, recession, z_core, t_tail) ==
    LET core_w == base_wacc + 100 * z_core
        tail_w == base_wacc + 200 * t_tail
        w == Clip((7 * core_w + 3 * tail_w) \div 10, 500, 2000)
    IN  IF recession THEN w + 100 ELSE w

\* lines 266-271: WACC of one trial
SampleWacc(base_wacc, recession, z_core, t_tail) ==
    LET core_w == base_wacc + 100 * z_core
        tail_w == base_wacc + 200 * t_tail
        w == (7 * core_w + 3 * tail_w) \div 10
    IN  Clip(IF recession THEN w + 100 ELSE w, 500, 2000)

\* the terminal growth of one trial with lines 276-277 left out
SampleTerminalGrowthRaw(base_tg, z, w) == base_tg + 30 * z

\* lines 275-277: terminal growth of one trial, kept 1e-4 below its WACC
SampleTerminalGrowth(base_tg, z, w) ==
    Min(Clip(base_tg + 30 * z, 50, 400), w - 1)

\* lines 281-283 without the recession cut of lines 284-285
SampleBaseFcfUncut(base_fcf, recession, z) == LogNormalNoise(base_fcf, z)

\* lines 281-285: base FCF of one trial
SampleBaseFcf(base_fcf, recession, z) ==
    LET base_draw == LogNormalNoise(base_fcf, z)
    IN  IF recession THEN MulDiv(base_draw, 9, 10) ELSE base_draw

\* lines 288-299: enterprise value of one trial
TrialEnterpriseValue(base_draw, g, w, tg, years) ==
    LET fcf_paths == [t \in 1..years |-> Compound(base_draw, g, t, One)]
        pv_explicit == FSum([t \in 1..years |-> Discount(Num(fcf_paths[t]), w, t)])
        terminal_fcf == fcf_paths[years]
        tv == FMulDiv(Num(terminal_fcf), One + tg, w - tg)
        pv_tv == Discount(tv, w, years)
    IN  FAdd(pv_explicit, pv_tv)

\* the per-share result of the engine: an array of n doubles, or, when the
\* projected share count is not positive, the bare Python float nan
PerShareArray(vals) == [array |-> TRUE, vals |-> vals]
ScalarNaN == [array |-> FALSE, vals |-> <<>>]

\* s is the generator state the engine starts from.  The record returned holds
\* what the method returns (per_share, details), the exception it raises
\* instead (raised), the generator state it leaves (rng) and its sampled arrays.
\* Each entry of details also carries the index of the trial it was read from.
\* The draws are made array by array, n at a time, in the order of the source:
\* rand, normal, standard_t, normal, standard_t, normal, normal, choice.
_monte_carlo_vectorized(base_fcf, base_growth, base_wacc, base_tg, years, shares, annual_share_change, bridge, n, recession_prob, s) ==
    LET recession == [i \in 1..n |-> Uniform(RawDraw(s, i - 1)) < recession_prob]
        g == [i \in 1..n |->
                SampleGrowth(base_growth, recession[i],
                             StdNormal(RawDraw(s, n + i - 1)),
                             StandardT(RawDraw(s, 2 * n + i - 1)))]
        w == [i \in 1..n |->
                SampleWacc(base_wacc, recession[i],
                           StdNormal(RawDraw(s, 3 * n + i - 1)),
                           StandardT(RawDraw(s, 4 * n + i - 1)))]
        tg == [i \in 1..n |->
                SampleTerminalGrowth(base_tg, StdNormal(RawDraw(s, 5 * n + i - 1)), w[i])]
        base_draw == [i \in 1..n |->
                SampleBaseFcf(base_fcf, recession[i], StdNormal(RawDraw(s, 6 * n + i - 1)))]
        ev == [i \in 1..n |-> TrialEnterpriseValue(base_draw[i], g[i], w[i], tg[i], years)]
        equity == [i \in 1..n |-> BridgeToEquity(ev[i], bridge)]
        end_shares == _shares_path(shares, annual_share_change, years)
        per_share == IF end_shares > 0
                        THEN PerShareArray([i \in 1..n |-> FMulDiv(equity[i], ArgOne, end_shares)])
                        ELSE ScalarNaN
        take == Min(25, n)
        idx == ChoiceWithoutReplacement(n, take, s, 7 * n)
        \* line 322 subscripts per_share for every sampled trial
        subscript_fails == ~per_share.array /\ take > 0
        details == IF subscript_fails THEN <<>>
                   ELSE [j \in 1..take |->
                           [trial |-> idx[j],
                            base_fcf |-> base_draw[idx[j]],
                            growth_rate |-> g[idx[j]],
                            wacc |-> w[idx[j]],
                            terminal_growth |-> tg[idx[j]],
                            enterprise_value |-> ev[idx[j]],
                            equity_value_per_share |-> per_share.vals[idx[j]],
                            recession |-> recession[idx[j]]]]
    IN  [raised |-> IF subscript_fails
                       THEN "TypeError: 'float' object is not subscriptable"
                       ELSE "none",
         per_share |-> per_share,
         details |-> details,
         rng |-> Advance(s, 7 * n + n), start |-> s,
         n |-> n, recession |-> recession, g |-> g, w |-> w, tg |-> tg,
         base_draw |-> base_draw, ev |-> ev, idx |-> idx, end_shares |-> end_shares]

----------------------------------------------------------------------------
(* Summary statistics.                                                     *)

RECURSIVE Insert(_, _)
Insert(x, sorted) ==
    IF sorted = <<>> THEN <<x>>
    ELSE IF x <= sorted[1] THEN <<x>> \o sorted
    ELSE <<sorted[1]>> \o Insert(x, Tail(sorted))

RECURSIVE Sort(_)
Sort(s) == IF s = <<>> THEN <<>> ELSE Insert(s[1], Sort(Tail(s)))

RECURSIVE SumSeq(_)
SumSeq(s) == IF s = <<>> THEN 0 ELSE s[1] + SumSeq(Tail(s))

\* Floating-point sums and quotients, rounded to nearest with ties to even.
\* A double has a significand of 53 bits; the model keeps 24, so that a sum
\* that has to be rounded still fits an integer, and no unit in the last place
\* is below one unit of the values.
Significand == 24

RECURSIVE BitLen(_)
BitLen(x) == IF x < 2 THEN 1 ELSE 1 + BitLen(x \div 2)

\* num / den >= 0 rounded to the nearest representable value
RoundNearestEven(num, den) ==
    LET q == num \div den
        spacing == IF q < Pow(2, Significand) THEN 1
                   ELSE Pow(2, BitLen(q) - Significand)
        d == den * spacing
        lower == num \div d
        twice == 2 * (num % d)
        up == twice > d \/ (twice = d /\ lower % 2 = 1)
    IN  (IF up THEN lower + 1 ELSE lower) * spacing

FloatQuot(num, den) ==
    IF num >= 0 THEN RoundNearestEven(num, den) ELSE - RoundNearestEven(- num, den)

\* the entries added one by one, each partial sum rounded
RECURSIVE FloatSum(_)
FloatSum(vals) ==
    IF vals = <<>> THEN 0
    ELSE FloatQuot(FloatSum(SubSeq(vals, 1, Len(vals) - 1)) + vals[Len(vals)], 1)

\* np.mean of a non-empty array
FloatMean(vals) == FloatQuot(FloatSum(vals), Len(vals))

\* np.percentile of a sorted array: linear interpolation between ranks
Percentile(sorted, q) ==
    LET pos == (Len(sorted) - 1) * q
        lo == (pos \div 100) + 1
        fr == pos % 100
    IN  IF fr = 0 THEN sorted[lo]
        ELSE sorted[lo] + MulDiv(sorted[lo + 1] - sorted[lo], fr, 100)

\* floor of the square root of x >= 0
RECURSIVE SqrtFrom(_, _)
SqrtFrom(x, r) == IF (r + 1) * (r + 1) > x THEN r ELSE SqrtFrom(x, r + 1)
Isqrt(x) ==
    LET coarse == IF x >= 10000 THEN 100 * SqrtFrom(x \div 10000, 0) ELSE 0
    IN  SqrtFrom(x, coarse)

\* np.std of a non-empty array with the given mean: the deviations are taken
\* relative to the largest one (in thousandths) so that no square is formed
\* of a value that may be large
StdDev(clean, mean) ==
    LET dev == [i \in 1..Len(clean) |-> clean[i] - mean]
        top == MaxOf([i \in 1..Len(dev) |-> Max(dev[i], -dev[i])])
        rel == [i \in 1..Len(dev) |-> MulDiv(dev[i], 1000, top)]
        meansq == SumSeq([i \in 1..Len(rel) |-> rel[i] * rel[i]]) \div Len(rel)
    IN  IF top = 0 THEN 0 ELSE MulDiv(top, Isqrt(meansq), 1000)

\* _summarize_mc reporting the size of the array as the count when no entry
\* is finite
_summarize_mc_counts_all(per_share) ==
    IF ~per_share.array
        THEN [raised |-> "AttributeError: 'float' object has no attribute 'size'"]
    ELSE LET finite == SelectSeq(per_share.vals, IsFinite)
             values == [i \in 1..Len(finite) |-> finite[i].v]
             clean == Sort(values)
         IN  IF Len(per_share.vals) = 0 \/ finite = <<>>
             THEN [raised |-> "none",
                   mean |-> NaN, median |-> NaN, std |-> NaN, p5 |-> NaN, p25 |-> NaN,
                   p75 |-> NaN, p95 |-> NaN, min |-> NaN, max |-> NaN,
                   count |-> Len(per_share.vals)]
             ELSE [raised |-> "none",
                   mean |-> Num(FloatMean(values)),
                   median |-> Num(Percentile(clean, 50)),
                   std |-> Num(StdDev(clean, FloatMean(values))),
                   p5 |-> Num(Percentile(clean, 5)),
                   p25 |-> Num(Percentile(clean, 25)),
                   p75 |-> Num(Percentile(clean, 75)),
                   p95 |-> Num(Percentile(clean, 95)),
                   min |-> Num(clean[1]),
                   max |-> Num(clean[Len(clean)]),
                   count |-> Len(clean)]

\* the exception raised when per_share is the bare float, else the dict
_summarize_mc(per_share) ==
    IF ~per_share.array
        THEN [raised |-> "AttributeError: 'float' object has no attribute 'size'"]
    ELSE LET finite == SelectSeq(per_share.vals, IsFinite)
             values == [i \in 1..Len(finite) |-> finite[i].v]
             clean == Sort(values)
         IN  IF Len(per_share.vals) = 0 \/ finite = <<>>
             THEN [raised |-> "none",
                   mean |-> NaN, median |-> NaN, std |-> NaN, p5 |-> NaN, p25 |-> NaN,
                   p75 |-> NaN, p95 |-> NaN, min |-> NaN, max |-> NaN, count |-> 0]
             ELSE [raised |-> "none",
                   mean |-> Num(FloatMean(values)),
                   median |-> Num(Percentile(clean, 50)),
                   std |-> Num(StdDev(clean, FloatMean(values))),
                   p5 |-> Num(Percentile(clean, 5)),
                   p25 |-> Num(Percentile(clean, 25)),
                   p75 |-> Num(Percentile(clean, 75)),
                   p95 |-> Num(Percentile(clean, 95)),
                   min |-> Num(clean[1]),
                   max |-> Num(clean[Len(clean)]),
                   count |-> Len(clean)]

----------------------------------------------------------------------------
(* Diagnostics.  Shares and ratios are in units of 1/One, the duration in  *)
(* units of 1/One of a year.                                               *)

FlagWaccNotAboveGrowth == "WACC not greater than terminal growth"
FlagEnterpriseValue == "Enterprise value non positive"
FlagShortDuration == "Short duration implies heavy back loading"
FlagTerminalDominant == "Terminal value dominates the enterprise value"

\* line 361 without its test of the enterprise value
TerminalShareUnguarded(pv_tv, ev) == FDiv(pv_tv, ev, One)

\* lines 361-363: the share of the terminal value, and whether it is above 0.7
TerminalShare(pv_tv, ev) == IF FGt(ev, 0) THEN FDiv(pv_tv, ev, One) ELSE NaN
\* the dominance test letting a share of exactly 0.7 through
TerminalDominantFromThreshold(terminal_share) ==
    IsFinite(terminal_share) /\ terminal_share.v >= (7 * One) \div 10

TerminalDominant(terminal_share) ==
    IsFinite(terminal_share) /\ terminal_share.v > (7 * One) \div 10

\* the duration with the years counted from 0 instead of 1
DurationFromYearZero(fcf_pv) ==
    IF Len(fcf_pv) > 0 /\ \A t \in 1..Len(fcf_pv) : IsFinite(fcf_pv[t])
        THEN LET total == SumSeq([t \in 1..Len(fcf_pv) |-> fcf_pv[t].v])
                 weights == [t \in 1..Len(fcf_pv) |->
                                IF total > 0 THEN MulDiv(fcf_pv[t].v, One, total) ELSE 0]
             IN  Num(SumSeq([t \in 1..Len(fcf_pv) |-> (t - 1) * weights[t]]))
        ELSE NaN

\* lines 367-373: weights of zero when the PVs do not sum to a positive value
Duration(fcf_pv) ==
    IF Len(fcf_pv) > 0 /\ \A t \in 1..Len(fcf_pv) : IsFinite(fcf_pv[t])
        THEN LET total == SumSeq([t \in 1..Len(fcf_pv) |-> fcf_pv[t].v])
                 weights == [t \in 1..Len(fcf_pv) |->
                                IF total > 0 THEN MulDiv(fcf_pv[t].v, One, total) ELSE 0]
             IN  Num(SumSeq([t \in 1..Len(fcf_pv) |-> t * weights[t]]))
        ELSE NaN

\* the short-duration test without the truthiness guard
ShortDurationAnyNumber(duration_years) ==
    IsFinite(duration_years) /\ duration_years.v < 2 * One

\* line 381: a duration of 0.0 is falsy, NaN is truthy and compares false
ShortDuration(duration_years) ==
    /\ ~(IsFinite(duration_years) /\ duration_years.v = 0)
    /\ IsFinite(duration_years) /\ duration_years.v < 2 * One

\* lines 376-384: the flags raised, in the order they are appended
HealthFlags(wacc, tg, ev, duration_years, terminal_dominant) ==
    (IF wacc <= tg THEN <<FlagWaccNotAboveGrowth>> ELSE <<>>)
    \o (IF ~IsFinite(ev) \/ ev.v <= 0 THEN <<FlagEnterpriseValue>> ELSE <<>>)
    \o (IF ShortDuration(duration_years) THEN <<FlagShortDuration>> ELSE <<>>)
    \o (IF terminal_dominant THEN <<FlagTerminalDominant>> ELSE <<>>)

_diagnostics(base, wacc, tg, years) ==
    [terminal_value_share |-> TerminalShare(base.pv_terminal_value, base.enterprise_value),
     terminal_value_dominant |->
         TerminalDominant(TerminalShare(base.pv_terminal_value, base.enterprise_value)),
     duration_years_pv_cashflows |-> Duration(base.pv_fcf_projections),
     pv_explicit_to_pv_terminal_ratio |->
         IF FGt(base.pv_terminal_value, 0)
             THEN FDiv(base.pv_explicit_period, base.pv_terminal_value, One)
             ELSE NaN,
     health_flags |->
         HealthFlags(wacc, tg, base.enterprise_value, Duration(base.pv_fcf_projections),
             TerminalDominant(TerminalShare(base.pv_terminal_value, base.enterprise_value)))]

----------------------------------------------------------------------------
(* Valuation orchestrator.                                                 *)

Null == [none |-> TRUE]
NoCalc == Null
NoArgs == Null
NoResult == Null
NoMc == Null
NoBridge == Null
NoCaller == Null
NoFetcher == Null
\* seed = None
NoSeed == -1

\* lines 103-123: the dict returned, once the summary is known
AssembleResult(a, base_fcf, g_nom, wacc_nom, tg_nom, base_breakdown, m, summary) ==
    [base_case |-> base_breakdown,
     monte_carlo |-> summary,
     diagnostics |-> _diagnostics(base_breakdown, wacc_nom, tg_nom, a.years),
     assumptions |->
        [base_fcf |-> base_fcf,
         growth_rate |-> g_nom,
         wacc |-> wacc_nom,
         terminal_growth |-> tg_nom,
         years |-> a.years,
         shares_outstanding_start |-> a.shares_outstanding,
         annual_share_change |-> a.annual_share_change,
         treat_sbc_as_cash_cost |-> a.treat_sbc_as_cash_cost,
         sbc_percent_of_fcf |-> a.sbc_percent_of_fcf,
         real_mode |-> a.real_mode,
         inflation |-> a.inflation,
         recession_prob |-> a.recession_prob],
     mc_sample_scenarios |-> SubSeq(m.details, 1, Min(10, Len(m.details)))]

\* line 105: _summarize_mc(mc_vals) returns, or raises
Summarized(a, base_fcf, g_nom, wacc_nom, tg_nom, base_breakdown, m, summary) ==
    IF summary.raised # "none"
        THEN [outcome |-> summary.raised, result |-> NoResult]
        ELSE [outcome |-> "returned",
              result |-> AssembleResult(a, base_fcf, g_nom, wacc_nom, tg_nom,
                                        base_breakdown, m, summary)]

\* lines 84-123, with the base case and the engine's outcome m in hand
Simulated(a, base_fcf, g_nom, wacc_nom, tg_nom, base_breakdown, m) ==
    IF m.raised # "none"
        THEN [outcome |-> m.raised, result |-> NoResult, rng |-> m.rng, mc |-> m,
              trace |-> <<"_validate_inputs", "_pick_base_fcf", "_base_case_breakdown",
                          "_monte_carlo_vectorized">>]
        ELSE [rng |-> m.rng, mc |-> m,
              trace |-> <<"_validate_inputs", "_pick_base_fcf", "_base_case_breakdown",
                          "_monte_carlo_vectorized", "_summarize_mc">>]
             @@ Summarized(a, base_fcf, g_nom, wacc_nom, tg_nom, base_breakdown, m,
                           _summarize_mc(m.per_share))

\* lines 81-101: default bridge, base case, Monte Carlo from generator state s
Normalized(a, s, base_fcf, g_nom, wacc_nom, tg_nom, bridge) ==
    Simulated(a, base_fcf, g_nom, wacc_nom, tg_nom,
              _base_case_breakdown(base_fcf, g_nom, wacc_nom, tg_nom, a.years,
                                   a.shares_outstanding, a.annual_share_change, bridge),
              _monte_carlo_vectorized(base_fcf, g_nom, wacc_nom, tg_nom, a.years,
                                      a.shares_outstanding, a.annual_share_change, bridge,
                                      a.monte_carlo_runs, a.recession_prob, s))

\* lines 67-123: what calculate_dcf_valuation does once validation has passed
Valuate(a, s) ==
    Normalized(a, s,
               SbcAdjust(_pick_base_fcf(a.fcf_history),
                         a.treat_sbc_as_cash_cost, a.sbc_percent_of_fcf),
               ToNominal(a.fcf_growth_rate, a.real_mode, a.inflation),
               ToNominal(a.wacc, a.real_mode, a.inflation),
               ToNominal(a.terminal_growth, a.real_mode, a.inflation),
               IF a.bridge = NoBridge THEN CapitalBridge(0, 0, 0, 0) ELSE a.bridge)

\* the call with validation run only after the sampling: the engine's outcome
\* m is in hand when the arguments are refused
RejectedLate(v, m) ==
    [outcome |-> v, result |-> NoResult, rng |-> m.rng, mc |-> NoMc,
     trace |-> <<"_pick_base_fcf", "_monte_carlo_vectorized", "_validate_inputs">>]

ValidatedAfterSampling(a, s, v) ==
    IF v # "ok"
        THEN RejectedLate(v,
                 _monte_carlo_vectorized(_pick_base_fcf(a.fcf_history), 0, 0, 0, a.years,
                                         a.shares_outstanding, a.annual_share_change,
                                         CapitalBridge(0, 0, 0, 0),
                                         a.monte_carlo_runs, a.recession_prob, s))
        ELSE Valuate(a, s)

\* the call's validation step: the rejection, or the rest of the call
Validated(a, s, v) ==
    IF v # "ok"
        THEN [outcome |-> v, result |-> NoResult, rng |-> s,
              trace |-> <<"_validate_inputs">>, mc |-> NoMc]
        ELSE Valuate(a, s)

\* the whole call, from generator state s: validation first, then the rest
calculate_dcf_valuation(a, s) ==
    Validated(a, s, _validate_inputs(a.wacc, a.terminal_growth, a.years))

----------------------------------------------------------------------------
(* calculate_wacc.  Rates are in units of 1/One, beta, the tax rate and    *)
(* the debt-to-equity ratio in units of 1/ArgOne, weights in units of      *)
(* 1/One.                                                                  *)

\* an Optional[float] argument: a value, or None
Some(v) == [some |-> TRUE, v |-> v]
None == [some |-> FALSE, v |-> 0]

\* lines 136-141, with rf and mrp resolved: the value returned and the locals,
\* or the exception of the division by a total of zero
WeightedCost(rf, mrp, beta, cost_of_debt, tax_rate, debt_to_equity) ==
    LET coe == rf + MulDiv(mrp, beta, ArgOne)
        after_tax_cod == MulDiv(cost_of_debt, ArgOne - tax_rate, ArgOne)
        total == ArgOne + debt_to_equity
        w_e == MulDiv(One, ArgOne, total)
        w_d == MulDiv(One, debt_to_equity, total)
    IN  IF total = 0
            THEN [raised |-> "ZeroDivisionError: float division by zero"]
            ELSE [raised |-> "none",
                  wacc |-> MulDiv(coe, w_e, One) + MulDiv(after_tax_cod, w_d, One),
                  rf |-> rf, mrp |-> mrp, coe |-> coe, after_tax_cod |-> after_tax_cod,
                  w_e |-> w_e, w_d |-> w_d]

\* calculate_wacc falling back to the instance default for every falsy
\* argument ("x or self.x"), a rate of 0.0 included
calculate_wacc_falsy_default(self, beta, risk_free_rate, market_risk_premium, cost_of_debt, tax_rate, debt_to_equity) ==
    WeightedCost(
        IF risk_free_rate.some /\ risk_free_rate.v # 0
            THEN risk_free_rate.v ELSE self.risk_free_rate,
        IF market_risk_premium.some /\ market_risk_premium.v # 0
            THEN market_risk_premium.v ELSE self.market_risk_premium,
        beta, cost_of_debt, tax_rate, debt_to_equity)

calculate_wacc(self, beta, risk_free_rate, market_risk_premium, cost_of_debt, tax_rate, debt_to_equity) ==
    WeightedCost(
        IF risk_free_rate.some THEN risk_free_rate.v ELSE self.risk_free_rate,
        IF market_risk_premium.some THEN market_risk_premium.v ELSE self.market_risk_premium,
        beta, cost_of_debt, tax_rate, debt_to_equity)

----------------------------------------------------------------------------
(* The inputs explored.  A rate argument is in percent.                    *)

MaxRuns == 1
MaxHist == 3

YearsArgs == {2, 3, 10, 11}
WaccArgs == {-1, 0, 3, 10}
TerminalGrowthArgs == {-2, 0, 3}
GrowthArgs == {5}
InflationArgs == {-100, -5, 3}
SbcPercentArgs == {0, 50, 100}
SharesArgs == {0, 1000}
ShareChangeArgs == {-100, 0}
RecessionProbArgs == {15}
HistoryArgs == {<<>>, <<900>>, <<400, -500>>, <<-500, 0>>}
BridgeArgs == {NoBridge}
SeedArgs == {NoSeed, 7}
\* states the unseeded generator may start the process in: all draws but the
\* second at the lowest level, and all draws but the first at the highest
EntropyStates == {RngLevels, RngMod - 2}

CallArgs ==
    [fcf_history : HistoryArgs,
     fcf_growth_rate : GrowthArgs,
     wacc : WaccArgs,
     terminal_growth : TerminalGrowthArgs,
     shares_outstanding : SharesArgs,
     monte_carlo_runs : 0..MaxRuns,
     years : YearsArgs,
     bridge : BridgeArgs,
     annual_share_change : ShareChangeArgs,
     treat_sbc_as_cash_cost : BOOLEAN,
     sbc_percent_of_fcf : SbcPercentArgs,
     real_mode : BOOLEAN,
     inflation : InflationArgs,
     recession_prob : RecessionProbArgs]

----------------------------------------------------------------------------
(* The program: a process constructs a calculator and calls it.            *)

Init ==
    /\ rng \in EntropyStates
    /\ calc = NoCalc
    /\ args = NoArgs
    /\ outcome = "none"
    /\ result = NoResult
    /\ trace = <<>>
    /\ mc = NoMc
    /\ instances = <<>> /\ caller = NoCaller /\ history = <<>>
    /\ data_fetcher = NoFetcher /\ request_counts = <<>> /\ clock = 0

\* DCFCalculator.__init__ with the default rates: 0.045, 0.06 and beta 1.0
Construct(seed) ==
    /\ calc' = [risk_free_rate |-> 450, market_risk_premium |-> 600,
                default_beta |-> ArgOne]
    /\ rng' = IF seed # NoSeed THEN SeedState(seed) ELSE rng
    /\ UNCHANGED <<args, outcome, result, trace, mc, session, server>>

\* the call ended as r says
Ended(a, r) ==
    /\ args' = a
    /\ outcome' = r.outcome
    /\ result' = r.result
    /\ rng' = r.rng
    /\ trace' = r.trace
    /\ mc' = r.mc
    /\ UNCHANGED <<calc, session, server>>

Call(a) == Ended(a, calculate_dcf_valuation(a, rng))

\* one calculator is constructed, then called once
CanConstruct == calc = NoCalc
CanCall == calc # NoCalc /\ outcome = "none"

Next ==
    \/ CanConstruct /\ \E seed \in SeedArgs : Construct(seed)
    \/ CanCall /\ \E a \in CallArgs : Call(a)

Spec == Init /\ [][Next]_vars

----------------------------------------------------------------------------
(* The Monte Carlo engine on its own: _monte_carlo_vectorized applied to   *)
(* base assumptions that no validation has screened, from every generator  *)
(* state, so that one trial sees every combination of raw draws.           *)

\* base assumptions far enough out for every clipping bound to be met
ExtremeEngineArgs ==
    [base_fcf : {DefaultBaseFcf},
     base_growth : {-5000, 6000},
     base_wacc : {3000},
     base_tg : {0},
     years : {3},
     shares : {1000},
     annual_share_change : {0},
     bridge : {CapitalBridge(0, 0, 0, 0)},
     n : {MaxRuns},
     recession_prob : {15}]

EngineArgs ==
    [base_fcf : {DefaultBaseFcf},
     base_growth : {500},
     base_wacc : {300, 1000},
     base_tg : {300, 1000},
     years : {3},
     shares : {1000},
     annual_share_change : {0},
     bridge : {CapitalBridge(0, 0, 0, 0)},
     n : 0..MaxRuns,
     recession_prob : {0, 15}] \cup ExtremeEngineArgs

InitMC ==
    /\ rng \in RngStates
    /\ calc = [risk_free_rate |-> 450, market_risk_premium |-> 600,
               default_beta |-> ArgOne]
    /\ args = NoArgs
    /\ outcome = "none"
    /\ result = NoResult
    /\ trace = <<>>
    /\ mc = NoMc
    /\ instances = <<>> /\ caller = NoCaller /\ history = <<>>
    /\ data_fetcher = NoFetcher /\ request_counts = <<>> /\ clock = 0

\* the engine ended as m says
EngineEnded(e, m) ==
    /\ args' = e
    /\ mc' = m
    /\ rng' = m.rng
    /\ outcome' = IF m.raised # "none" THEN m.raised ELSE "returned"
    /\ trace' = <<"_monte_carlo_vectorized">>
    /\ UNCHANGED <<calc, result, session, server>>

Simulate(e) ==
    EngineEnded(e, _monte_carlo_vectorized(e.base_fcf, e.base_growth, e.base_wacc,
                                           e.base_tg, e.years, e.shares,
                                           e.annual_share_change, e.bridge, e.n,
                                           e.recession_prob, rng))

NextMC == outcome = "none" /\ \E e \in EngineArgs : Simulate(e)

SpecMC == InitMC /\ [][NextMC]_vars

----------------------------------------------------------------------------
(* Base FCF selection on its own, over every short history.                *)

FcfValues == {-500, -200, 0, 400, 900}

RECURSIVE SeqsUpTo(_, _)
SeqsUpTo(S, k) ==
    IF k = 0 THEN {<<>>}
    ELSE LET shorter == SeqsUpTo(S, k - 1)
         IN  shorter \cup {Append(h, x) : h \in {q \in shorter : Len(q) = k - 1}, x \in S}

Histories == SeqsUpTo(FcfValues, MaxHist)

InitPick ==
    /\ args \in {[fcf_history |-> h] : h \in Histories}
    /\ rng = 0
    /\ calc = [risk_free_rate |-> 450, market_risk_premium |-> 600,
               default_beta |-> ArgOne]
    /\ outcome = "none"
    /\ result = NoResult
    /\ trace = <<>>
    /\ mc = NoMc
    /\ instances = <<>> /\ caller = NoCaller /\ history = <<>>
    /\ data_fetcher = NoFetcher /\ request_counts = <<>> /\ clock = 0

PickBaseFcf ==
    /\ outcome = "none"
    /\ result' = [base_fcf |-> _pick_base_fcf(args.fcf_history)]
    /\ outcome' = "returned"
    /\ trace' = <<"_pick_base_fcf">>
    /\ UNCHANGED <<rng, calc, args, mc, session, server>>

NextPick == PickBaseFcf

SpecPick == InitPick /\ [][NextPick]_vars

----------------------------------------------------------------------------
(* The scenario sample: calls with valid assumptions whose run counts lie  *)
(* on both sides of the sample sizes 25 and 10, from seeded generators.     *)

MaxSampleRuns == 26
SampleRuns == {0, 1, 9, 10, 11, 25, MaxSampleRuns}
SampleSeeds == 0..149

SampleArgs ==
    [fcf_history : {<<>>},
     fcf_growth_rate : {5},
     wacc : {10},
     terminal_growth : {3},
     shares_outstanding : {0, 1000},
     monte_carlo_runs : SampleRuns,
     years : {3},
     bridge : {NoBridge},
     annual_share_change : {-5, 0},
     treat_sbc_as_cash_cost : {TRUE},
     sbc_percent_of_fcf : {0},
     real_mode : {FALSE},
     inflation : {3},
     recession_prob : {15}]

InitSample ==
    /\ rng \in {SeedState(seed) : seed \in SampleSeeds}
    /\ calc = [risk_free_rate |-> 450, market_risk_premium |-> 600,
               default_beta |-> ArgOne]
    /\ args = NoArgs
    /\ outcome = "none"
    /\ result = NoResult
    /\ trace = <<>>
    /\ mc = NoMc
    /\ instances = <<>> /\ caller = NoCaller /\ history = <<>>
    /\ data_fetcher = NoFetcher /\ request_counts = <<>> /\ clock = 0

NextSample == CanCall /\ \E a \in SampleArgs : Call(a)

SpecSample == InitSample /\ [][NextSample]_vars

----------------------------------------------------------------------------
(* A session: one process constructs up to MaxInstances calculators and    *)
(* calls them in any order, passing the same list and the same bridge      *)
(* object each time.  np.random is the one generator of the process.       *)

MaxInstances == 2
MaxEvents == 4

SessionSeeds == {NoSeed, 7, 9}
CallerObjects ==
    [fcf_history : {<<400, -500>>, <<900>>},
     bridge : {CapitalBridge(1000, 0, 0, 0)}]

\* the arguments of a session's calls: accepted ones, and ones that are refused
SessionArgs(c) ==
    [fcf_history : {c.fcf_history},
     fcf_growth_rate : {5},
     wacc : {10},
     terminal_growth : {3, 10},
     shares_outstanding : {1000},
     monte_carlo_runs : {2},
     years : {3},
     bridge : {c.bridge},
     annual_share_change : {0},
     treat_sbc_as_cash_cost : {TRUE},
     sbc_percent_of_fcf : {0},
     real_mode : {FALSE},
     inflation : {3},
     recession_prob : {15}]

InitSession ==
    /\ rng \in EntropyStates
    /\ calc = NoCalc
    /\ args = NoArgs
    /\ outcome = "none"
    /\ result = NoResult
    /\ trace = <<>>
    /\ mc = NoMc
    /\ instances = <<>>
    /\ caller \in CallerObjects
    /\ history = <<>>
    /\ data_fetcher = NoFetcher /\ request_counts = <<>> /\ clock = 0

\* DCFCalculator(seed = seed) that stores its arguments and seeds nothing
NewCalculatorUnseeded(seed) ==
    /\ instances' = Append(instances, [risk_free_rate |-> 450,
                                       market_risk_premium |-> 600,
                                       default_beta |-> ArgOne])
    /\ rng' = rng
    /\ history' = Append(history, [op |-> "init", inst |-> Len(instances) + 1,
                                   seed |-> seed])
    /\ UNCHANGED <<calc, args, outcome, result, trace, mc, caller, server>>

\* DCFCalculator(seed = seed): a new instance; a seed re-seeds np.random
NewCalculator(seed) ==
    /\ instances' = Append(instances, [risk_free_rate |-> 450,
                                       market_risk_premium |-> 600,
                                       default_beta |-> ArgOne])
    /\ rng' = IF seed # NoSeed THEN SeedState(seed) ELSE rng
    /\ history' = Append(history, [op |-> "init", inst |-> Len(instances) + 1,
                                   seed |-> seed])
    /\ UNCHANGED <<calc, args, outcome, result, trace, mc, caller, server>>

\* instances[k].calculate_dcf_valuation(a) ended as r says
SessionCallEnded(k, a, r) ==
    /\ args' = a
    /\ outcome' = r.outcome
    /\ result' = r.result
    /\ rng' = r.rng
    /\ trace' = r.trace
    /\ mc' = r.mc
    /\ history' = Append(history, [op |-> "call", inst |-> k, args |-> a,
                                   outcome |-> r.outcome, result |-> r.result])
    /\ UNCHANGED <<calc, instances, server>>

\* the call taking the most recent value off the caller's list as it reads it
SessionCallPopsHistory(k, a) ==
    /\ SessionCallEnded(k, a, calculate_dcf_valuation(a, rng))
    /\ caller' = [caller EXCEPT !.fcf_history = SubSeq(@, 1, Len(@) - 1)]

SessionCall(k, a) ==
    /\ SessionCallEnded(k, a, calculate_dcf_valuation(a, rng))
    /\ UNCHANGED caller

CanExtend == Len(history) < MaxEvents

NextSession ==
    \/ CanExtend /\ Len(instances) < MaxInstances
           /\ \E seed \in SessionSeeds : NewCalculator(seed)
    \/ CanExtend
           /\ \E k \in 1..Len(instances) : \E a \in SessionArgs(caller) : SessionCall(k, a)

SpecSession == InitSession /\ [][NextSession]_vars

----------------------------------------------------------------------------
(* The summary on its own, over every short array of doubles, finite or    *)
(* not, and over the bare float the engine may hand it.                    *)

MaxVals == 3
\* the last value is one whose threefold sum has to be rounded
SummaryValues == {NaN, Inf(1), Inf(-1), Num(-300), Num(0), Num(250), Num(11184818)}
PerShareInputs ==
    {PerShareArray(v) : v \in SeqsUpTo(SummaryValues, MaxVals)} \cup {ScalarNaN}

InitSummary ==
    /\ args \in {[per_share |-> x] : x \in PerShareInputs}
    /\ rng = 0
    /\ calc = [risk_free_rate |-> 450, market_risk_premium |-> 600,
               default_beta |-> ArgOne]
    /\ outcome = "none"
    /\ result = NoResult
    /\ trace = <<>>
    /\ mc = NoMc
    /\ instances = <<>> /\ caller = NoCaller /\ history = <<>>
    /\ data_fetcher = NoFetcher /\ request_counts = <<>> /\ clock = 0

\* _summarize_mc(per_share) ended as summary says
SummaryEnded(summary) ==
    /\ outcome' = IF summary.raised # "none" THEN summary.raised ELSE "returned"
    /\ result' = IF summary.raised # "none" THEN NoResult ELSE summary
    /\ trace' = <<"_summarize_mc">>
    /\ UNCHANGED <<rng, calc, args, mc, session, server>>

Summarize == outcome = "none" /\ SummaryEnded(_summarize_mc(args.per_share))

NextSummary == Summarize

SpecSummary == InitSummary /\ [][NextSummary]_vars

----------------------------------------------------------------------------
(* The diagnostics on their own, over base cases built as lines 211-213    *)
(* build them from a PV array and a terminal PV: the PVs may be negative,  *)
(* zero or non-finite.                                                     *)

MaxPv == 3
PvValues == {Num(-5), Num(0), Num(1), Num(5), Num(10), NaN, Inf(1)}
TerminalPvValues == {Num(-7), Num(0), Num(7), Num(35), Num(36), NaN}
\* pairs of resolved rates <<wacc, tg>>
DiagnosticRates == {<<1000, 300>>, <<300, 300>>}

BaseCase(pv_explicit, pv_tv) ==
    [enterprise_value |-> FAdd(FSum(pv_explicit), pv_tv),
     pv_explicit_period |-> FSum(pv_explicit),
     pv_terminal_value |-> pv_tv,
     pv_fcf_projections |-> pv_explicit]

DiagnosticArgs ==
    {[base |-> BaseCase(pv, tv), wacc |-> r[1], tg |-> r[2], years |-> Len(pv)] :
        pv \in SeqsUpTo(PvValues, MaxPv), tv \in TerminalPvValues, r \in DiagnosticRates}

InitDiagnostics ==
    /\ args \in DiagnosticArgs
    /\ rng = 0
    /\ calc = [risk_free_rate |-> 450, market_risk_premium |-> 600,
               default_beta |-> ArgOne]
    /\ outcome = "none"
    /\ result = NoResult
    /\ trace = <<>>
    /\ mc = NoMc
    /\ instances = <<>> /\ caller = NoCaller /\ history = <<>>
    /\ data_fetcher = NoFetcher /\ request_counts = <<>> /\ clock = 0

Diagnose ==
    /\ outcome = "none"
    /\ result' = _diagnostics(args.base, args.wacc, args.tg, args.years)
    /\ outcome' = "returned"
    /\ trace' = <<"_diagnostics">>
    /\ UNCHANGED <<rng, calc, args, mc, session, server>>

NextDiagnostics == Diagnose

SpecDiagnostics == InitDiagnostics /\ [][NextDiagnostics]_vars

----------------------------------------------------------------------------
(* calculate_wacc on its own: instances with different default rates, the  *)
(* optional rates omitted, zero or positive, and debt-to-equity ratios on  *)
(* both sides of -1.                                                       *)

WaccInstances ==
    [risk_free_rate : {200, 450}, market_risk_premium : {600}, default_beta : {ArgOne}]

WaccArgSets ==
    [beta : {0, 100, 150},
     risk_free_rate : {None, Some(0), Some(300)},
     market_risk_premium : {None, Some(0), Some(500)},
     cost_of_debt : {500},
     tax_rate : {0, 25},
     debt_to_equity : {-200, -100, 0, 30, 100}]

InitWacc ==
    /\ calc \in WaccInstances
    /\ args \in WaccArgSets
    /\ rng = 0
    /\ outcome = "none"
    /\ result = NoResult
    /\ trace = <<>>
    /\ mc = NoMc
    /\ instances = <<>> /\ caller = NoCaller /\ history = <<>>
    /\ data_fetcher = NoFetcher /\ request_counts = <<>> /\ clock = 0

\* calc.calculate_wacc(...) ended as r says
WaccEnded(r) ==
    /\ outcome' = IF r.raised # "none" THEN r.raised ELSE "returned"
    /\ result' = IF r.raised # "none" THEN NoResult ELSE r
    /\ trace' = <<"calculate_wacc">>
    /\ UNCHANGED <<rng, calc, args, mc, session, server>>

CalculateWacc ==
    /\ outcome = "none"
    /\ WaccEnded(calculate_wacc(calc, args.beta, args.risk_free_rate,
                                args.market_risk_premium, args.cost_of_debt,
                                args.tax_rate, args.debt_to_equity))

NextWacc == CalculateWacc

SpecWacc == InitWacc /\ [][NextWacc]_vars

----------------------------------------------------------------------------
(* The base case on its own, with and without bridge adjustments, for      *)
(* discount factors that are positive or zero.                             *)

BreakdownArgs ==
    [base_fcf : {0, 1000, 100000},
     g : {-3000, 500},
     wacc : {-One, 1000},
     tg : {300},
     years : {3, 5},
     shares_out : {0, 1000},
     annual_share_change : {-5, 0},
     bridge : {CapitalBridge(0, 0, 0, 0), CapitalBridge(1000, 200, 50, -30)}]

InitBreakdown ==
    /\ args \in BreakdownArgs
    /\ rng = 0
    /\ calc = [risk_free_rate |-> 450, market_risk_premium |-> 600,
               default_beta |-> ArgOne]
    /\ outcome = "none"
    /\ result = NoResult
    /\ trace = <<>>
    /\ mc = NoMc
    /\ instances = <<>> /\ caller = NoCaller /\ history = <<>>
    /\ data_fetcher = NoFetcher /\ request_counts = <<>> /\ clock = 0

Breakdown ==
    /\ outcome = "none"
    /\ result' = _base_case_breakdown(args.base_fcf, args.g, args.wacc, args.tg,
                                      args.years, args.shares_out,
                                      args.annual_share_change, args.bridge)
    /\ outcome' = "returned"
    /\ trace' = <<"_base_case_breakdown">>
    /\ UNCHANGED <<rng, calc, args, mc, session, server>>

NextBreakdown == Breakdown

SpecBreakdown == InitBreakdown /\ [][NextBreakdown]_vars

----------------------------------------------------------------------------
(* The terminal value on its own, for terminal growths below, at and above *)
(* the WACC.  Rates are in units of 1/One.                                 *)

TerminalArgs ==
    [last_fcf : {-500, 0, 7, 1000},
     wacc : {-200, 0, 300, 1000},
     tg : {-300, 0, 299, 300, 301, 1000, 2500}]

InitTerminal ==
    /\ args \in TerminalArgs
    /\ rng = 0
    /\ calc = [risk_free_rate |-> 450, market_risk_premium |-> 600,
               default_beta |-> ArgOne]
    /\ outcome = "none"
    /\ result = NoResult
    /\ trace = <<>>
    /\ mc = NoMc
    /\ instances = <<>> /\ caller = NoCaller /\ history = <<>>
    /\ data_fetcher = NoFetcher /\ request_counts = <<>> /\ clock = 0

TerminalValue ==
    /\ outcome = "none"
    /\ result' = [value |-> _terminal_value(args.last_fcf, args.wacc, args.tg)]
    /\ outcome' = "returned"
    /\ trace' = <<"_terminal_value">>
    /\ UNCHANGED <<rng, calc, args, mc, session, server>>

NextTerminal == TerminalValue

SpecTerminal == InitTerminal /\ [][NextTerminal]_vars

----------------------------------------------------------------------------
(* The HTTP server, backend/main.py: its data fetcher, its calculator and  *)
(* the analyze endpoint.  Rates of a request are whole percents.           *)

\* the trials the analyze endpoint asks for (1000, main.py line 212), scaled
AnalyzeRuns == 2

\* request = None: a POST without a body
NoBody == Null

\* the validators of StockAnalysisRequest: TRUE when the value is let through
validate_growth_rate(v) == ~(v.some /\ (v.v < -50 \/ v.v > 200))
validate_discount_rate(v) == ~(v.some /\ (v.v <= 0 \/ v.v > 50))
validate_terminal_growth(v) == ~(v.some /\ (v.v < 0 \/ v.v > 10))

RequestValid(request) ==
    request = NoBody
    \/ (/\ validate_growth_rate(request.growth_rate)
        /\ validate_discount_rate(request.discount_rate)
        /\ validate_terminal_growth(request.terminal_growth))

\* Python's 'v or default' for an Optional[float]: None and 0.0 are falsy
OrDefault(v, default) == IF v.some /\ v.v # 0 THEN v.v ELSE default

\* FinancialDataFetcher(): lines 44-47 and 66
NewFetcher ==
    [demo_mode |-> TRUE, api_limit_exceeded |-> FALSE, cache |-> {},
     last_av_request_time |-> 0]

\* time.time() when the server starts, in seconds
ServerStart == 600

\* Config.MIN_REQUEST_INTERVAL
MIN_REQUEST_INTERVAL == 12

\* _alpha_vantage_rate_limit: the time at which the request may go out
AvRequestTime(fetcher, now) ==
    Max(now, fetcher.last_av_request_time + MIN_REQUEST_INTERVAL)

is_demo_mode(fetcher) == fetcher.demo_mode \/ fetcher.api_limit_exceeded

\* the demo generator draws its cash flows from the random module: four
\* positive quarters
DemoStockData ==
    {[fcf_data |-> <<400, 450, 500, 900>>, shares_outstanding |-> 1000, is_demo |-> TRUE],
     [fcf_data |-> <<900, 800, 850, 400>>, shares_outstanding |-> 1000, is_demo |-> TRUE]}

\* lines 122-137: the free tier fills in neither cash flows nor shares
RealStockData ==
    [fcf_data |-> <<0, 0, 0, 0>>, shares_outstanding |-> 0, is_demo |-> FALSE]

\* get_stock_data: the dicts it may return
StockDataOf(fetcher) ==
    IF fetcher.demo_mode \/ fetcher.api_limit_exceeded
        THEN DemoStockData ELSE {RealStockData}

\* get_stock_data: the fetcher and the time afterwards; a real result is
\* fetched after the pause of _alpha_vantage_rate_limit and cached under the
\* ticker and the five-minute bucket
AfterStockData(fetcher, ticker, now) ==
    IF fetcher.demo_mode \/ fetcher.api_limit_exceeded \/ <<ticker, now \div 300>> \in fetcher.cache
        THEN [fetcher |-> fetcher, now |-> now]
        ELSE [fetcher |-> [fetcher EXCEPT !.last_av_request_time = AvRequestTime(fetcher, now),
                                          !.cache = @ \cup {<<ticker, now \div 300>>}],
              now |-> AvRequestTime(fetcher, now)]

\* lines 208-215: the call the handler makes
ForwardedCall(request, stock_data) ==
    [fcf_history |-> stock_data.fcf_data,
     fcf_growth_rate |-> OrDefault(request.growth_rate, 5),
     wacc |-> OrDefault(request.discount_rate, 10),
     terminal_growth |-> OrDefault(request.terminal_growth, 3),
     shares_outstanding |-> stock_data.shares_outstanding,
     monte_carlo_runs |-> AnalyzeRuns,
     years |-> 5,
     bridge |-> NoBridge,
     annual_share_change |-> 0,
     treat_sbc_as_cash_cost |-> TRUE,
     sbc_percent_of_fcf |-> 0,
     real_mode |-> FALSE,
     inflation |-> 3,
     recession_prob |-> 15]

GrowthRateBodies == {None, Some(-60), Some(0), Some(8)}
DiscountRateBodies == {None, Some(0), Some(2), Some(12), Some(60)}
TerminalGrowthBodies == {None, Some(0), Some(2), Some(11)}
Requests ==
    {NoBody} \cup [growth_rate : GrowthRateBodies,
                   discount_rate : DiscountRateBodies,
                   terminal_growth : TerminalGrowthBodies]

InitAnalyze ==
    /\ rng \in EntropyStates
    /\ calc = [risk_free_rate |-> 450, market_risk_premium |-> 600,
               default_beta |-> ArgOne]
    /\ args = NoArgs
    /\ outcome = "none"
    /\ result = NoResult
    /\ trace = <<>>
    /\ mc = NoMc
    /\ instances = <<>> /\ history = <<>>
    /\ caller \in Requests
    /\ data_fetcher \in {NewFetcher, [NewFetcher EXCEPT !.demo_mode = FALSE]}
    /\ request_counts = <<>> /\ clock = ServerStart

\* the request model turns the body down: 422, and the handler does not run
AnalyzeRejected ==
    /\ outcome = "none" /\ ~RequestValid(caller)
    /\ outcome' = "422"
    /\ UNCHANGED <<rng, calc, args, result, trace, mc, session, server>>

\* request = None: the data is fetched, then request.growth_rate raises
AnalyzeWithoutBody(stock_data) ==
    /\ outcome = "none" /\ caller = NoBody
    /\ data_fetcher' = AfterStockData(data_fetcher, "AAPL", clock).fetcher
    /\ clock' = AfterStockData(data_fetcher, "AAPL", clock).now
    /\ outcome' = "500"
    /\ UNCHANGED <<rng, calc, args, result, trace, mc, session, request_counts>>

\* the handler ended with the engine's answer r to the call a
AnalyzeEnded(a, r) ==
    /\ args' = a
    /\ outcome' = IF r.outcome = "returned" THEN "200" ELSE "500"
    /\ result' = r.result
    /\ rng' = r.rng
    /\ trace' = r.trace
    /\ mc' = r.mc
    /\ data_fetcher' = AfterStockData(data_fetcher, "AAPL", clock).fetcher
    /\ clock' = AfterStockData(data_fetcher, "AAPL", clock).now
    /\ UNCHANGED <<calc, session, request_counts>>

analyze_stock(stock_data) ==
    /\ outcome = "none" /\ caller # NoBody /\ RequestValid(caller)
    /\ AnalyzeEnded(ForwardedCall(caller, stock_data),
                    calculate_dcf_valuation(ForwardedCall(caller, stock_data), rng))

NextAnalyze ==
    \/ AnalyzeRejected
    \/ \E stock_data \in StockDataOf(data_fetcher) : AnalyzeWithoutBody(stock_data)
    \/ \E stock_data \in StockDataOf(data_fetcher) : analyze_stock(stock_data)

SpecAnalyze == InitAnalyze /\ [][NextAnalyze]_vars

----------------------------------------------------------------------------
(* The demo mode of the server: the toggle and status endpoints, and the   *)
(* endpoints that use the fetcher.  An Alpha Vantage key is configured.    *)

MaxRequests == 4

\* get_popular_tickers from its ticker i on: the request for ticker limit_at
\* (if any) is answered with an API limit error; the method sleeps 8 seconds
\* after the first and the second ticker
RECURSIVE PopularTickersFrom(_, _, _, _)
PopularTickersFrom(i, fetcher, now, limit_at) ==
    IF i > 3 THEN [fetcher |-> fetcher, now |-> now, demo |-> FALSE]
    ELSE LET at == AvRequestTime(fetcher, now)
             asked == [fetcher EXCEPT !.last_av_request_time = at]
         IN  IF limit_at = i
                 THEN [fetcher |-> [asked EXCEPT !.api_limit_exceeded = TRUE,
                                                 !.demo_mode = TRUE],
                       now |-> at, demo |-> TRUE]
                 ELSE PopularTickersFrom(i + 1, asked, IF i < 3 THEN at + 8 ELSE at, limit_at)

get_popular_tickers(fetcher, now, limit_at) ==
    IF fetcher.demo_mode \/ fetcher.api_limit_exceeded
        THEN [fetcher |-> fetcher, now |-> now, demo |-> TRUE]
        ELSE PopularTickersFrom(1, fetcher, now, limit_at)

InitDemoMode ==
    /\ rng = 0
    /\ calc = NoCalc
    /\ args = NoArgs
    /\ outcome = "none"
    /\ result = NoResult
    /\ trace = <<>>
    /\ mc = NoMc
    /\ instances = <<>> /\ caller = NoCaller /\ history = <<>>
    /\ data_fetcher = NewFetcher
    /\ request_counts = <<>> /\ clock = ServerStart

\* a handler returned response, leaving the fetcher and the clock as given
Responded(handler, response, fetcher, now) ==
    /\ trace' = <<handler>>
    /\ outcome' = "200"
    /\ result' = response
    /\ data_fetcher' = fetcher
    /\ clock' = now
    /\ history' = Append(history, [op |-> handler, response |-> response])
    /\ UNCHANGED <<rng, calc, args, mc, instances, caller, request_counts>>

\* POST /api/demo-mode
toggle_demo_mode ==
    IF is_demo_mode(data_fetcher)
        THEN Responded("toggle_demo_mode", [demo_mode |-> FALSE],
                       [data_fetcher EXCEPT !.demo_mode = FALSE], clock)
        ELSE Responded("toggle_demo_mode", [demo_mode |-> TRUE],
                       [data_fetcher EXCEPT !.demo_mode = TRUE], clock)

\* GET /api/demo-mode
get_demo_mode_status ==
    Responded("get_demo_mode_status",
              [demo_mode |-> is_demo_mode(data_fetcher),
               api_limit_exceeded |-> data_fetcher.api_limit_exceeded,
               manual_demo_mode |-> data_fetcher.demo_mode],
              data_fetcher, clock)

\* GET /api/tickers
PopularTickers(limit_at) ==
    Responded("get_popular_tickers",
              [demo |-> get_popular_tickers(data_fetcher, clock, limit_at).demo],
              get_popular_tickers(data_fetcher, clock, limit_at).fetcher,
              get_popular_tickers(data_fetcher, clock, limit_at).now)

\* GET /api/stock/{ticker}
StockData(stock_data) ==
    Responded("get_stock_data", [is_demo |-> stock_data.is_demo],
              AfterStockData(data_fetcher, "AAPL", clock).fetcher,
              AfterStockData(data_fetcher, "AAPL", clock).now)

CanRequest == Len(history) < MaxRequests

NextDemoMode ==
    \/ CanRequest /\ toggle_demo_mode
    \/ CanRequest /\ get_demo_mode_status
    \/ CanRequest /\ \E limit_at \in 0..3 : PopularTickers(limit_at)
    \/ CanRequest /\ \E stock_data \in StockDataOf(data_fetcher) : StockData(stock_data)

SpecDemoMode == InitDemoMode /\ [][NextDemoMode]_vars

----------------------------------------------------------------------------
(* The rate limiters: check_rate_limit of backend/main.py and              *)
(* RateLimitMiddleware.dispatch of backend/security.py.  Each keeps, per   *)
(* client, the times of the requests it let through.                       *)

RATE_LIMIT_WINDOW == 60
RATE_LIMIT_MAX_REQUESTS == 30

\* the times recorded for a client; a client never seen has none
RecordedOf(store, client) == IF client \in DOMAIN store THEN store[client] ELSE <<>>

\* the list comprehension: the times less than window old
KeepRecent(times, now, window) == SelectSeq(times, LAMBDA t : now - t < window)

StoreWith(store, client, times) ==
    [c \in DOMAIN store \cup {client} |-> IF c = client THEN times ELSE store[c]]

\* the three steps with the limit test letting max requests stand and one more in
SlidingWindowCheckOffByOne(store, client, now, window, max) ==
    LET recent == KeepRecent(RecordedOf(store, client), now, window)
    IN  IF Len(recent) > max
            THEN [accepted |-> FALSE, store |-> StoreWith(store, client, recent)]
            ELSE [accepted |-> TRUE, store |-> StoreWith(store, client, Append(recent, now))]

\* clean the client's old requests, refuse at the limit, else record this one
SlidingWindowCheck(store, client, now, window, max) ==
    LET recent == KeepRecent(RecordedOf(store, client), now, window)
    IN  IF Len(recent) >= max
            THEN [accepted |-> FALSE, store |-> StoreWith(store, client, recent)]
            ELSE [accepted |-> TRUE, store |-> StoreWith(store, client, Append(recent, now))]

check_rate_limit(store, client_ip, now) ==
    SlidingWindowCheck(store, client_ip, now, RATE_LIMIT_WINDOW, RATE_LIMIT_MAX_REQUESTS)

\* RateLimitMiddleware.dispatch up to call_next; a refusal is the 429
dispatch(self, store, client_ip, now) ==
    SlidingWindowCheck(store, client_ip, now, self.period, self.calls)

\* the limiter of main.py as an object with the fields of the middleware
MainLimiter ==
    [kind |-> "check_rate_limit", calls |-> RATE_LIMIT_MAX_REQUESTS,
     period |-> RATE_LIMIT_WINDOW]

\* RateLimitMiddleware(app, calls, period)
Middlewares == [kind : {"dispatch"}, calls : {1, 2}, period : {30, 60}]

Clients == {"10.0.0.1", "10.0.0.2"}
\* the second client is let through at most this often
MaxOtherRequests == 1
\* the seconds the server is watched for
MaxElapsed == 60
TimeSteps == {30}

InitRateLimit ==
    /\ rng = 0
    /\ calc \in {MainLimiter} \cup Middlewares
    /\ args = NoArgs
    /\ outcome = "none"
    /\ result = NoResult
    /\ trace = <<>>
    /\ mc = NoMc
    /\ instances = <<>> /\ caller = NoCaller
    /\ history = [client \in Clients |-> <<>>]
    /\ data_fetcher = NoFetcher
    /\ request_counts = <<>> /\ clock = ServerStart

\* the limiter answered r to a request of client at the present time; the
\* history keeps, per client, the times of the requests let through
LimiterEnded(client, r) ==
    /\ args' = [client |-> client, now |-> clock]
    /\ outcome' = IF r.accepted THEN "accepted" ELSE "rejected"
    /\ request_counts' = r.store
    /\ history' = IF r.accepted
                     THEN [history EXCEPT ![client] = Append(@, clock)]
                     ELSE history
    /\ trace' = <<calc.kind>>
    /\ UNCHANGED <<rng, calc, result, mc, instances, caller, data_fetcher, clock>>

CheckRateLimit(client) ==
    /\ calc.kind = "check_rate_limit"
    /\ LimiterEnded(client, check_rate_limit(request_counts, client, clock))

Dispatch(client) ==
    /\ calc.kind = "dispatch"
    /\ LimiterEnded(client, dispatch(calc, request_counts, client, clock))

\* time.time() moves on
TimePasses(d) ==
    /\ clock + d <= ServerStart + MaxElapsed
    /\ clock' = clock + d
    /\ UNCHANGED <<rng, calc, args, outcome, result, trace, mc, session, data_fetcher, request_counts>>

LetThrough(client) == Len(history[client])

MayAsk(client) == client = "10.0.0.1" \/ LetThrough(client) < MaxOtherRequests

NextRateLimit ==
    \/ \E client \in Clients : MayAsk(client) /\ CheckRateLimit(client)
    \/ \E client \in Clients : MayAsk(client) /\ Dispatch(client)
    \/ \E d \in TimeSteps : TimePasses(d)

SpecRateLimit == InitRateLimit /\ [][NextRateLimit]_vars

----------------------------------------------------------------------------
(* Properties.                                                             *)

HorizonError == "ValueError: years must be between 3 and 10"
ValidationErrors ==
    {HorizonError,
     "ValueError: WACC must be strictly greater than terminal growth",
     "ValueError: WACC and terminal growth must be non negative"}

CallMade == outcome # "none"
Returned == outcome = "returned"
Rejected == outcome \in ValidationErrors /\ result = NoResult
HorizonOk == 3 <= args.years /\ args.years <= 10
RatesOk ==
    /\ args.wacc > args.terminal_growth
    /\ args.wacc >= 0
    /\ args.terminal_growth >= 0
\* shares_outstanding * (1 + annual_share_change)^years is positive
ProjectedSharesPositive == args.shares_outstanding > 0 /\ args.annual_share_change > -ArgOne

\* C1: a horizon below 3 or above 10 is rejected with the horizon error and no
\* result; with valid rates a horizon in [3,10] is never rejected, and the call
\* returns a result whenever the projected share count is positive.
C1_HorizonAcceptedIffInRange ==
    CallMade =>
        /\ ~HorizonOk => (outcome = HorizonError /\ result = NoResult)
        /\ (HorizonOk /\ RatesOk) => outcome \notin ValidationErrors
        /\ (HorizonOk /\ RatesOk /\ ProjectedSharesPositive) =>
               (Returned /\ result # NoResult /\ result.assumptions.years = args.years)

C1_Witness == Returned /\ args.years = 10 /\ RatesOk

\* C2: with a valid horizon, a WACC not above the terminal growth (equal
\* included) is rejected with a validation error and no result.
C2_WaccNotAboveGrowthRejected ==
    (CallMade /\ HorizonOk /\ args.wacc <= args.terminal_growth) => Rejected

C2_Witness ==
    /\ Rejected /\ HorizonOk
    /\ args.wacc = args.terminal_growth /\ args.wacc > 0

\* C3: a negative WACC or a negative terminal growth is rejected with a
\* validation error and no result, whatever the other arguments are.
C3_NegativeRateRejected ==
    (CallMade /\ (args.wacc < 0 \/ args.terminal_growth < 0)) => Rejected

C3_Witness ==
    /\ Rejected /\ HorizonOk
    /\ args.wacc > args.terminal_growth /\ args.wacc > 0 /\ args.terminal_growth < 0

\* C4: a call that ends in a validation error has entered nothing but
\* _validate_inputs, has left the generator state as it found it, and has
\* produced no result and no Monte Carlo output.
C4_ValidationFailsFast ==
    [][(outcome = "none" /\ outcome' \in ValidationErrors) =>
           /\ rng' = rng
           /\ trace' = <<"_validate_inputs">>
           /\ result' = NoResult
           /\ mc' = NoMc]_vars

\* a rejected call that asked for trials, on a generator that a draw would move
C4_Witness ==
    /\ Rejected /\ args.monte_carlo_runs >= 1
    /\ Advance(rng, 1) # rng

\* C5: in every trial of every engine run the sampled WACC exceeds the sampled
\* terminal growth by at least 1e-4 (one basis point), so w - tg is positive.
C5_TrialWaccAboveGrowth ==
    mc # NoMc => \A i \in 1..mc.n : mc.w[i] - mc.tg[i] >= 1 /\ mc.w[i] - mc.tg[i] > 0

\* a trial whose WACC sits on its floor while its terminal growth sits on its cap
C5_Witness ==
    /\ mc # NoMc /\ mc.n >= 1
    /\ \E i \in 1..mc.n : mc.w[i] = 500 /\ mc.tg[i] = 400

\* C6: in every returned result the echoed nominal WACC is strictly greater
\* than the echoed nominal terminal growth, in nominal and in real mode.
C6_ResolvedWaccAboveGrowth ==
    Returned => result.assumptions.wacc > result.assumptions.terminal_growth

\* C7: in every returned result the echoed nominal WACC and terminal growth
\* are non-negative and the echoed horizon is in [3,10].
C7_ResolvedRatesNonNegative ==
    Returned =>
        /\ result.assumptions.wacc >= 0
        /\ result.assumptions.terminal_growth >= 0
        /\ 3 <= result.assumptions.years /\ result.assumptions.years <= 10

\* C8: _pick_base_fcf returns $1B for an empty history, the last element when
\* it is positive, otherwise the largest positive element, and $1B when no
\* element is positive.
C8_PickBaseFcfRule ==
    (Returned /\ trace = <<"_pick_base_fcf">>) =>
        LET h == args.fcf_history
            b == result.base_fcf
            pos == {i \in 1..Len(h) : h[i] > 0}
        IN  /\ h = <<>> => b * MoneyUnit = 1000000000
            /\ (h # <<>> /\ h[Len(h)] > 0) => b = h[Len(h)]
            /\ (h # <<>> /\ h[Len(h)] <= 0 /\ pos # {}) =>
                   /\ \E i \in pos : b = h[i]
                   /\ \A i \in pos : h[i] <= b
            /\ (h # <<>> /\ pos = {}) => b * MoneyUnit = 1000000000

\* the most recent value is not positive and an earlier, smaller positive
\* value precedes the largest one
C8_Witness ==
    /\ Returned /\ trace = <<"_pick_base_fcf">>
    /\ Len(args.fcf_history) = 3
    /\ args.fcf_history[3] <= 0
    /\ args.fcf_history[1] > args.fcf_history[2] /\ args.fcf_history[2] > 0
    /\ result.base_fcf = args.fcf_history[1]

\* C9: in every returned result the base FCF fed to the projector and the
\* engine, after the stock-compensation adjustment, is strictly positive.
C9_BaseFcfPositive ==
    Returned => result.assumptions.base_fcf > 0

\* C10: with valid horizon and rates, at least one Monte Carlo run and a
\* projected share count that is not positive, the call returns a result whose
\* base-case equity value per share is NaN and whose summary statistics are NaN.
C10_NonPositiveSharesNotFatal ==
    (CallMade /\ HorizonOk /\ RatesOk /\ args.monte_carlo_runs >= 1
        /\ ~ProjectedSharesPositive) =>
        /\ Returned
        /\ IsNaN(result.base_case.equity_value_per_share)
        /\ IsNaN(result.monte_carlo.mean) /\ IsNaN(result.monte_carlo.median)
        /\ result.monte_carlo.count = 0

\* C11: for every call that passes validation and every run count N >= 0 the
\* engine returns an array of exactly N per-share valuations, and the summary
\* of a returned result counts at most N finite values.
C11_EngineReturnsNValuations ==
    (CallMade /\ outcome \notin ValidationErrors) =>
        /\ mc # NoMc
        /\ mc.per_share.array
        /\ Len(mc.per_share.vals) = args.monte_carlo_runs
        /\ Returned
        /\ result.monte_carlo.count <= args.monte_carlo_runs

\* the sampled entry e holds the inputs and outputs of its trial of run m
IsTrialOf(e, m) ==
    /\ e.trial \in 1..m.n
    /\ e.base_fcf = m.base_draw[e.trial]
    /\ e.growth_rate = m.g[e.trial]
    /\ e.wacc = m.w[e.trial]
    /\ e.terminal_growth = m.tg[e.trial]
    /\ e.enterprise_value = m.ev[e.trial]
    /\ e.equity_value_per_share =
           FMulDiv(BridgeToEquity(m.ev[e.trial], CapitalBridge(0, 0, 0, 0)),
                   ArgOne, m.end_shares)
    /\ e.recession = m.recession[e.trial]

\* C12: an engine run that returns has recorded min(25, N) trials with pairwise
\* distinct trial indices, and a returned result shows exactly min(10, N) of
\* them, each holding the inputs and outputs of one trial of that run.
C12_SampleBoundedDistinct ==
    /\ (mc # NoMc /\ mc.raised = "none") =>
           /\ Len(mc.details) = Min(25, mc.n)
           /\ \A j \in 1..Len(mc.details) :
                  /\ IsTrialOf(mc.details[j], mc)
                  /\ \A k \in 1..Len(mc.details) :
                         j # k => mc.details[j].trial # mc.details[k].trial
    /\ Returned =>
           /\ Len(result.mc_sample_scenarios) = Min(10, args.monte_carlo_runs)
           /\ \A j \in 1..Len(result.mc_sample_scenarios) :
                  /\ IsTrialOf(result.mc_sample_scenarios[j], mc)
                  /\ \A k \in 1..Len(result.mc_sample_scenarios) :
                         j # k => result.mc_sample_scenarios[j].trial
                                      # result.mc_sample_scenarios[k].trial

\* more runs than either sample size: 25 of them recorded, 10 shown, and the
\* sample is not just the first trials in order
C12_Witness ==
    /\ Returned /\ args.monte_carlo_runs > 25
    /\ Len(mc.details) = 25
    /\ Len(result.mc_sample_scenarios) = 10
    /\ result.mc_sample_scenarios[1].trial # 1

\* the call at place p of the history is the first thing done with the
\* generator after an instance was constructed with the given seed
FirstCallAfterSeeding(p, seed) ==
    /\ p \in 2..Len(history)
    /\ history[p].op = "call"
    /\ history[p - 1].op = "init"
    /\ history[p - 1].seed = seed

\* C13: two calls with identical arguments, each made right after a calculator
\* was constructed with the same seed, end the same way and return identical
\* Monte Carlo summaries and identical scenario samples.
C13_SeededCallsReproducible ==
    \A p, q \in 1..Len(history) : \A seed \in SessionSeeds \ {NoSeed} :
        (/\ FirstCallAfterSeeding(p, seed)
         /\ FirstCallAfterSeeding(q, seed)
         /\ history[p].args = history[q].args) =>
            /\ history[p].outcome = history[q].outcome
            /\ history[p].outcome = "returned" =>
                   /\ history[p].result.monte_carlo = history[q].result.monte_carlo
                   /\ history[p].result.mc_sample_scenarios
                          = history[q].result.mc_sample_scenarios

\* the same seed twice, the same accepted call after each, the generator
\* having moved in between
C13_Witness ==
    /\ Len(history) = 4
    /\ FirstCallAfterSeeding(2, 7) /\ FirstCallAfterSeeding(4, 7)
    /\ history[2].args = history[4].args
    /\ history[4].outcome = "returned"
    /\ history[4].result.monte_carlo.count = 2
    /\ history[4].result.monte_carlo.min.v < history[4].result.monte_carlo.max.v
    /\ Len(history[4].result.mc_sample_scenarios) = 2

\* the seed instance k was constructed with
SeedOf(k) == (CHOOSE e \in {history[p] : p \in 1..Len(history)} :
                 e.op = "init" /\ e.inst = k).seed

\* the state of a generator of instance k's own after the first n events of
\* the history: seeded at k's construction, moved by k's calls and by nothing else
RECURSIVE OwnState(_, _)
OwnState(k, n) ==
    IF n = 0 THEN 0
    ELSE IF history[n].inst # k THEN OwnState(k, n - 1)
    ELSE IF history[n].op = "init" THEN SeedState(history[n].seed)
    ELSE calculate_dcf_valuation(history[n].args, OwnState(k, n - 1)).rng

\* the call recorded as e ended as the call alone did, with the same Monte
\* Carlo summary and scenario sample
SameMonteCarlo(e, alone) ==
    /\ e.outcome = alone.outcome
    /\ e.outcome = "returned" =>
           /\ e.result.monte_carlo = alone.result.monte_carlo
           /\ e.result.mc_sample_scenarios = alone.result.mc_sample_scenarios

\* C14: every call of an instance constructed with a seed gives the Monte
\* Carlo output that instance gives when it is the only one constructed and
\* called, whatever other instances were constructed or called in between.
C14_InstancesHaveOwnGenerator ==
    \A p \in 1..Len(history) :
        (history[p].op = "call" /\ SeedOf(history[p].inst) # NoSeed) =>
            SameMonteCarlo(history[p],
                calculate_dcf_valuation(history[p].args,
                                        OwnState(history[p].inst, p - 1)))

\* the calls recorded as d and e, if made with the same arguments, ended the
\* same way and returned the same base case, diagnostics and assumptions
SameDeterministicPart(d, e) ==
    (d.op = "call" /\ e.op = "call" /\ d.args = e.args) =>
        /\ d.outcome = e.outcome
        /\ d.outcome = "returned" =>
               /\ d.result.base_case = e.result.base_case
               /\ d.result.diagnostics = e.result.diagnostics
               /\ d.result.assumptions = e.result.assumptions

\* C15: no step of a session changes the fields of an existing instance, the
\* caller's FCF list or the caller's bridge, and after every step any two calls
\* made with the same arguments, accepted or refused, have ended the same way
\* with the same base case, diagnostics and assumptions.
C15_CallsLeaveNoState ==
    [][/\ \A k \in 1..Len(instances) : instances'[k] = instances[k]
       /\ caller' = caller
       /\ \A p, q \in 1..Len(history') :
              SameDeterministicPart(history'[p], history'[q])]_vars

\* one instance called twice with the same accepted arguments, the generator
\* having moved in between, and once with arguments that were refused
C15_Witness ==
    /\ Len(history) = 4
    /\ history[2].op = "call" /\ history[3].op = "call" /\ history[4].op = "call"
    /\ history[2].inst = 1 /\ history[4].inst = 1
    /\ history[2].args = history[4].args
    /\ history[2].outcome = "returned" /\ history[4].outcome = "returned"
    /\ history[2].result.monte_carlo # history[4].result.monte_carlo
    /\ history[3].outcome \in ValidationErrors
    /\ instances[1].risk_free_rate = 450
    /\ caller.fcf_history = <<400, -500>>

\* the array summarized has no finite entry (it may be empty)
NoFiniteEntry ==
    \A i \in 1..Len(args.per_share.vals) : ~IsFinite(args.per_share.vals[i])

\* C16: _summarize_mc of an empty array, or of one whose entries are all NaN
\* or infinite, returns mean, median, std, p5, p25, p75, p95, min and max all
\* NaN and count = 0.
C16_SummaryOfNoFiniteValue ==
    (trace = <<"_summarize_mc">> /\ args.per_share.array /\ NoFiniteEntry) =>
        /\ Returned
        /\ IsNaN(result.mean) /\ IsNaN(result.median) /\ IsNaN(result.std)
        /\ IsNaN(result.p5) /\ IsNaN(result.p25)
        /\ IsNaN(result.p75) /\ IsNaN(result.p95)
        /\ IsNaN(result.min) /\ IsNaN(result.max)
        /\ result.count = 0

\* a summarized array that is not empty and mixes NaN with both infinities
C16_Witness ==
    /\ Returned /\ trace = <<"_summarize_mc">> /\ NoFiniteEntry
    /\ \E i, j, k \in 1..Len(args.per_share.vals) :
           /\ IsNaN(args.per_share.vals[i])
           /\ args.per_share.vals[j] = Inf(1)
           /\ args.per_share.vals[k] = Inf(-1)
    /\ result.count = 0

Diagnosed == outcome = "returned" /\ trace = <<"_diagnostics">>
HasFlag(flag) == \E i \in 1..Len(result.health_flags) : result.health_flags[i] = flag

\* C17: terminal_value_share is PV(terminal)/EV (to the fixed-point unit) when
\* EV > 0 and NaN when EV <= 0; the terminal-dominance flag is in health_flags
\* exactly when terminal_value_dominant is true, which is exactly when the share
\* is a number strictly above 0.7.
C17_TerminalShareAndFlag ==
    Diagnosed =>
        LET ev == args.base.enterprise_value
            pv_tv == args.base.pv_terminal_value
            share == result.terminal_value_share
        IN  /\ (IsFinite(ev) /\ ev.v > 0 /\ IsFinite(pv_tv)) =>
                   /\ IsFinite(share)
                   /\ share.v * ev.v <= pv_tv.v * One
                   /\ pv_tv.v * One < (share.v + 1) * ev.v
            /\ (IsFinite(ev) /\ ev.v <= 0) => IsNaN(share)
            /\ result.terminal_value_dominant <=> (IsFinite(share) /\ 10 * share.v > 7 * One)
            /\ HasFlag(FlagTerminalDominant) <=> result.terminal_value_dominant

\* a share of exactly 0.7, with neither the indicator nor the flag raised
C17_Witness ==
    /\ Diagnosed
    /\ result.terminal_value_share = Num((7 * One) \div 10)
    /\ ~result.terminal_value_dominant
    /\ ~HasFlag(FlagTerminalDominant)

\* the explicit-period PV array handed to _diagnostics, and what is claimed of it
PvArray == args.base.pv_fcf_projections
AllPvFinite == \A t \in 1..Len(PvArray) : IsFinite(PvArray[t])
PvTotal == SumSeq([t \in 1..Len(PvArray) |-> PvArray[t].v])
PvWeightedYears == SumSeq([t \in 1..Len(PvArray) |-> t * PvArray[t].v])
\* d is sum(t * PV_t) / sum(PV_t) in units of 1/One, up to the rounding of the
\* weights (each weight is rounded down by less than one unit)
IsWeightedAverageYear(d) ==
    /\ IsFinite(d)
    /\ IF PvTotal > 0
           THEN /\ d.v * PvTotal <= One * PvWeightedYears
                /\ One * PvWeightedYears < (d.v + SumSeq([t \in 1..Len(PvArray) |-> t])) * PvTotal
           ELSE /\ d.v * PvTotal >= One * PvWeightedYears
                /\ One * PvWeightedYears > (d.v + SumSeq([t \in 1..Len(PvArray) |-> t])) * PvTotal

\* C18 as claimed: the duration is sum(t*PV_t)/sum(PV_t) over the PV array, and
\* NaN whenever a PV is non-finite or the PVs sum to zero.
C18_DurationNaNOnZeroSum ==
    Diagnosed =>
        /\ (Len(PvArray) > 0 /\ AllPvFinite /\ PvTotal # 0) =>
               IsWeightedAverageYear(result.duration_years_pv_cashflows)
        /\ (~AllPvFinite \/ (Len(PvArray) > 0 /\ AllPvFinite /\ PvTotal = 0)) =>
               IsNaN(result.duration_years_pv_cashflows)

\* C18 as amended: the duration is sum(t*PV_t)/sum(PV_t) when every PV is
\* finite and the PVs sum to a positive value; it is NaN when the array is empty
\* or a PV is non-finite; it is 0.0 when every PV is finite and the PVs sum to
\* zero or to a negative value.
C18_DurationZeroOnNonPositiveSum ==
    Diagnosed =>
        /\ (Len(PvArray) > 0 /\ AllPvFinite /\ PvTotal > 0) =>
               IsWeightedAverageYear(result.duration_years_pv_cashflows)
        /\ (Len(PvArray) = 0 \/ ~AllPvFinite) =>
               IsNaN(result.duration_years_pv_cashflows)
        /\ (Len(PvArray) > 0 /\ AllPvFinite /\ PvTotal <= 0) =>
               result.duration_years_pv_cashflows = Num(0)

\* PVs that are not all zero and cancel out: the duration reported is 0.0
C18_Witness ==
    /\ Diagnosed
    /\ Len(PvArray) = 3 /\ AllPvFinite /\ PvTotal = 0
    /\ PvArray[1].v > 0 /\ PvArray[3].v < 0
    /\ result.duration_years_pv_cashflows = Num(0)

\* each of the other three flags is raised exactly on its own condition, and
\* the flags raised are in the order of the source, none twice
OtherFlagsIndependent ==
    /\ HasFlag(FlagWaccNotAboveGrowth) <=> args.wacc <= args.tg
    /\ HasFlag(FlagEnterpriseValue) <=>
           (~IsFinite(args.base.enterprise_value) \/ args.base.enterprise_value.v <= 0)
    /\ HasFlag(FlagTerminalDominant) <=> result.terminal_value_dominant
    /\ Len(result.health_flags) =
           Cardinality({f \in {FlagWaccNotAboveGrowth, FlagEnterpriseValue,
                               FlagShortDuration, FlagTerminalDominant} : HasFlag(f)})

\* C19 as claimed: the short-duration flag is raised exactly when the duration
\* reported is a number below 2.0, and the four flags are raised independently.
C19_ShortDurationFlagBelowTwo ==
    Diagnosed =>
        /\ HasFlag(FlagShortDuration) <=>
               (/\ IsFinite(result.duration_years_pv_cashflows)
                /\ result.duration_years_pv_cashflows.v < 2 * One)
        /\ OtherFlagsIndependent

\* C19 as amended: the short-duration flag is raised exactly when the duration
\* reported is a number below 2.0 other than 0.0, and the four flags are raised
\* independently.
C19_ShortDurationFlagNonZeroBelowTwo ==
    Diagnosed =>
        /\ HasFlag(FlagShortDuration) <=>
               (/\ IsFinite(result.duration_years_pv_cashflows)
                /\ result.duration_years_pv_cashflows.v # 0
                /\ result.duration_years_pv_cashflows.v < 2 * One)
        /\ OtherFlagsIndependent

\* a duration of 0.0 with no short-duration flag, while two other flags are raised
C19_Witness ==
    /\ Diagnosed
    /\ result.duration_years_pv_cashflows = Num(0)
    /\ ~HasFlag(FlagShortDuration)
    /\ HasFlag(FlagWaccNotAboveGrowth) /\ HasFlag(FlagTerminalDominant)
    /\ ~HasFlag(FlagEnterpriseValue)

\* q is num / den rounded down, for den # 0
IsQuotient(q, num, den) ==
    IF den > 0 THEN q * den <= num /\ num < (q + 1) * den
    ELSE q * den >= num /\ num > (q + 1) * den

Near(x, y, tolerance) == x - y <= tolerance /\ y - x <= tolerance

\* the rates the claim has calculate_wacc use
ClaimedRf ==
    IF args.risk_free_rate.some THEN args.risk_free_rate.v ELSE calc.risk_free_rate
ClaimedMrp ==
    IF args.market_risk_premium.some THEN args.market_risk_premium.v
    ELSE calc.market_risk_premium

\* C20: for every D/E other than -1 calculate_wacc returns
\* weight_equity*cost_of_equity + weight_debt*after_tax_cost_of_debt with
\* weight_equity = 1/(1+D/E) and weight_debt = (D/E)/(1+D/E), which sum to 1 (to
\* the fixed-point unit); a risk_free_rate or market_risk_premium that is given,
\* 0 included, is the one used, and the instance default is used when it is
\* omitted.
C20_WaccWeightsAndDefaults ==
    (trace = <<"calculate_wacc">> /\ args.debt_to_equity # -ArgOne) =>
        /\ Returned
        /\ IsQuotient(result.w_e, One * ArgOne, ArgOne + args.debt_to_equity)
        /\ IsQuotient(result.w_d, One * args.debt_to_equity, ArgOne + args.debt_to_equity)
        /\ Near(result.w_e + result.w_d, One, 1)
        /\ result.rf = ClaimedRf
        /\ result.mrp = ClaimedMrp
        /\ IsQuotient(result.coe - ClaimedRf, args.beta * ClaimedMrp, ArgOne)
        /\ IsQuotient(result.after_tax_cod,
                      args.cost_of_debt * (ArgOne - args.tax_rate), ArgOne)
        /\ Near(result.wacc * One,
                result.w_e * result.coe + result.w_d * result.after_tax_cod, 2 * One)

\* a risk-free rate of 0 given to an instance whose default is not 0, the
\* market risk premium omitted, and some debt
C20_Witness ==
    /\ Returned /\ trace = <<"calculate_wacc">>
    /\ args.risk_free_rate = Some(0) /\ calc.risk_free_rate > 0
    /\ args.market_risk_premium = None
    /\ args.beta > 0 /\ args.debt_to_equity > 0
    /\ result.rf = 0 /\ result.mrp = calc.market_risk_premium
    /\ result.coe < calc.risk_free_rate + calc.market_risk_premium

\* C21: in every base-case breakdown enterprise_value is pv_explicit_period +
\* pv_terminal_value, pv_explicit_period is the sum of pv_fcf_projections, and
\* equity_value is enterprise_value - net_debt + non_operating_assets -
\* minority_interest + other_adjustments, which is enterprise_value for the
\* default bridge.
C21_BaseCaseIdentities ==
    (Returned /\ trace = <<"_base_case_breakdown">>) =>
        /\ result.enterprise_value
               = FAdd(result.pv_explicit_period, result.pv_terminal_value)
        /\ result.pv_explicit_period = FSum(result.pv_fcf_projections)
        /\ Len(result.pv_fcf_projections) = args.years
        /\ IsFinite(result.enterprise_value) =>
               /\ IsFinite(result.equity_value)
               /\ result.equity_value.v =
                      result.enterprise_value.v - args.bridge.net_debt
                      + args.bridge.non_operating_assets
                      - args.bridge.minority_interest
                      + args.bridge.other_adjustments
        /\ ~IsFinite(result.enterprise_value) =>
               result.equity_value = result.enterprise_value
        /\ args.bridge = CapitalBridge(0, 0, 0, 0) =>
               result.equity_value = result.enterprise_value

\* a finite positive enterprise value and a bridge with all four adjustments
C21_Witness ==
    /\ Returned /\ trace = <<"_base_case_breakdown">>
    /\ FGt(result.enterprise_value, 0) /\ IsFinite(result.enterprise_value)
    /\ FGt(result.pv_terminal_value, 0) /\ FGt(result.pv_explicit_period, 0)
    /\ args.bridge.net_debt > 0 /\ args.bridge.non_operating_assets > 0
    /\ args.bridge.minority_interest > 0 /\ args.bridge.other_adjustments < 0
    /\ result.equity_value.v < result.enterprise_value.v

\* C22: _terminal_value divides by a strictly positive spread: for tg >= wacc
\* the growth used is wacc - 1e-6 and the divisor 1e-6, so the value is
\* last_fcf * (1 + wacc - 1e-6) / 1e-6; for tg < wacc the growth given is used
\* and the value is last_fcf * (1 + tg) / (wacc - tg).
C22_TerminalSpreadPositive ==
    (Returned /\ trace = <<"_terminal_value">>) =>
        /\ args.tg >= args.wacc =>
               result.value = args.last_fcf * (100 * One + 100 * args.wacc - 1)
        /\ args.tg < args.wacc =>
               IsQuotient(result.value, args.last_fcf * (One + args.tg),
                          args.wacc - args.tg)
        /\ (args.last_fcf > 0 /\ args.wacc > -One /\ args.tg > -One) =>
               result.value > 0

\* a terminal growth above the WACC, and a cash flow the clipping multiplies
\* by a million
C22_Witness ==
    /\ Returned /\ trace = <<"_terminal_value">>
    /\ args.tg > args.wacc /\ args.wacc > 0 /\ args.last_fcf > 0
    /\ result.value > 1000000 * args.last_fcf

EngineRan == mc # NoMc /\ trace = <<"_monte_carlo_vectorized">>

\* C23: every trial's growth is in [-0.30, 0.40], its WACC in [0.05, 0.20] and
\* its terminal growth in [0.005, 0.04], also after the terminal growth was
\* forced below the WACC: WACC - 1e-4 is above the cap of the terminal growth.
C23_TrialParametersInBounds ==
    EngineRan =>
        \A i \in 1..mc.n :
            /\ -3000 <= mc.g[i] /\ mc.g[i] <= 4000
            /\ 500 <= mc.w[i] /\ mc.w[i] <= 2000
            /\ 50 <= mc.tg[i] /\ mc.tg[i] <= 400
            /\ mc.w[i] - 1 >= 499 /\ mc.w[i] - 1 > 400

\* a trial on the growth floor, the WACC cap and the terminal growth floor
C23_Witness ==
    /\ EngineRan /\ mc.n >= 1
    /\ \E i \in 1..mc.n : mc.g[i] = -3000 /\ mc.w[i] = 2000 /\ mc.tg[i] = 50

\* the draws of trial i, read from the generator state the engine started in
FlagDraw(i) == Uniform(RawDraw(mc.start, i - 1))
CoreGrowthDraw(i) == args.base_growth + 200 * StdNormal(RawDraw(mc.start, mc.n + i - 1))
TailGrowthDraw(i) == args.base_growth + 400 * StandardT(RawDraw(mc.start, 2 * mc.n + i - 1))
CoreWaccDraw(i) == args.base_wacc + 100 * StdNormal(RawDraw(mc.start, 3 * mc.n + i - 1))
TailWaccDraw(i) == args.base_wacc + 200 * StandardT(RawDraw(mc.start, 4 * mc.n + i - 1))
BlendedWacc(i) == (7 * CoreWaccDraw(i) + 3 * TailWaccDraw(i)) \div 10
NoiseDraw(i) == LogNormalNoise(args.base_fcf, StdNormal(RawDraw(mc.start, 6 * mc.n + i - 1)))

\* C25: a trial is flagged when its uniform draw is below recession_prob, so
\* never for recession_prob = 0; a flagged trial's growth is the clipped
\* min(core, base_growth - 0.03), at most max(base_growth - 0.03, -0.30), its
\* WACC is raised by 0.01 before clipping and its base FCF draw is multiplied
\* by 0.9; an unflagged trial gets none of the three.
C25_RecessionRegime ==
    EngineRan =>
        \A i \in 1..mc.n :
            /\ mc.recession[i] = (FlagDraw(i) < args.recession_prob)
            /\ args.recession_prob = 0 => ~mc.recession[i]
            /\ mc.recession[i] =>
                   /\ mc.g[i] = Clip(Min(CoreGrowthDraw(i), args.base_growth - 300),
                                     -3000, 4000)
                   /\ mc.g[i] <= Max(args.base_growth - 300, -3000)
                   /\ mc.w[i] = Clip(BlendedWacc(i) + 100, 500, 2000)
                   /\ mc.base_draw[i] = MulDiv(NoiseDraw(i), 9, 10)
            /\ ~mc.recession[i] =>
                   /\ mc.g[i] = Clip((7 * CoreGrowthDraw(i) + 3 * TailGrowthDraw(i)) \div 10,
                                     -3000, 4000)
                   /\ mc.w[i] = Clip(BlendedWacc(i), 500, 2000)
                   /\ mc.base_draw[i] = NoiseDraw(i)

\* a flagged trial whose core growth is above base_growth - 0.03, whose raised
\* WACC is inside the bounds and whose base FCF draw was cut
C25_Witness ==
    /\ EngineRan /\ mc.n >= 1
    /\ \E i \in 1..mc.n :
          /\ mc.recession[i]
          /\ CoreGrowthDraw(i) > args.base_growth - 300
          /\ mc.g[i] = args.base_growth - 300
          /\ 500 < BlendedWacc(i) /\ mc.w[i] = BlendedWacc(i) + 100 /\ mc.w[i] < 2000
          /\ mc.base_draw[i] < NoiseDraw(i)

\* the bridge a call hands to the engine
BridgeOfCall == IF args.bridge = NoBridge THEN CapitalBridge(0, 0, 0, 0) ELSE args.bridge

\* C24: the share count is not randomized: in a returned call the engine's
\* divisor is shares_outstanding * (1 + annual_share_change)^years, the base
\* case's shares_end_year, and when it is positive every trial's per-share
\* value is that trial's equity divided by it.
C24_ShareCountDeterministic ==
    (Returned /\ mc # NoMc) =>
        /\ mc.end_shares = result.base_case.shares_end_year
        /\ mc.end_shares = Compound(args.shares_outstanding, args.annual_share_change,
                                    args.years, ArgOne)
        /\ mc.end_shares > 0 =>
               /\ mc.per_share.array
               /\ \A i \in 1..mc.n :
                      LET equity == BridgeToEquity(mc.ev[i], BridgeOfCall)
                          value == mc.per_share.vals[i]
                      IN  /\ IsFinite(equity) = IsFinite(value)
                          /\ IsFinite(equity) =>
                                 IsQuotient(value.v, equity.v * ArgOne, mc.end_shares)

\* a shrinking share count and trials with different equity values
C24_Witness ==
    /\ Returned /\ mc # NoMc /\ mc.n >= 2
    /\ args.annual_share_change < 0
    /\ 0 < mc.end_shares /\ mc.end_shares < args.shares_outstanding
    /\ mc.ev[1] # mc.ev[2]
    /\ mc.per_share.vals[1] # mc.per_share.vals[2]

\* the finite entries of the array handed to _summarize_mc
FiniteEntries == {i \in 1..Len(args.per_share.vals) : args.per_share.vals[i].k = "num"}
SummarizedSomeFinite ==
    /\ Returned /\ trace = <<"_summarize_mc">>
    /\ args.per_share.array /\ FiniteEntries # {}

\* count, min, max and the percentiles are those of the finite entries
FiniteOnlyStatistics ==
    /\ result.count = Cardinality(FiniteEntries)
    /\ \A i \in FiniteEntries :
           /\ result.min.v <= args.per_share.vals[i].v
           /\ args.per_share.vals[i].v <= result.max.v
    /\ \E i \in FiniteEntries : args.per_share.vals[i] = result.min
    /\ \E i \in FiniteEntries : args.per_share.vals[i] = result.max
    /\ result.min.v <= result.p5.v /\ result.p5.v <= result.p25.v
    /\ result.p25.v <= result.median.v /\ result.median.v <= result.p75.v
    /\ result.p75.v <= result.p95.v /\ result.p95.v <= result.max.v

\* count * 2^-(Significand - 1) of the largest magnitude, and one unit
MeanSlack ==
    (result.count * Max(Max(result.max.v, - result.max.v), Max(result.min.v, - result.min.v)))
        \div Pow(2, Significand - 1) + 1

\* C26 as claimed: for an array with a finite entry the count is the number of
\* finite entries, min <= p5 <= p25 <= median <= p75 <= p95 <= max, and
\* min <= mean <= max.
C26_SummaryOrdered ==
    SummarizedSomeFinite =>
        /\ FiniteOnlyStatistics
        /\ result.min.v <= result.mean.v /\ result.mean.v <= result.max.v

\* C26 amended: the same, with the mean inside [min, max] only up to the
\* rounding of the floating-point sum and quotient.
C26_SummaryOrderedUpToRounding ==
    SummarizedSomeFinite =>
        /\ FiniteOnlyStatistics
        /\ result.min.v - MeanSlack <= result.mean.v
        /\ result.mean.v <= result.max.v + MeanSlack

\* an array with a non-finite entry and two different finite ones
C26_Witness ==
    /\ SummarizedSomeFinite
    /\ result.count = 2 /\ Len(args.per_share.vals) = 3
    /\ result.min.v < result.mean.v /\ result.mean.v < result.max.v
    /\ result.min.v < result.median.v

\* C27: the flags 'Enterprise value non positive' and 'Terminal value
\* dominates the enterprise value' are never both raised: the first is raised
\* exactly when the enterprise value is non-finite or <= 0, and then the
\* terminal share is NaN or not above 0.7 and terminal_value_dominant is false.
C27_FlagsExclusive ==
    Diagnosed =>
        LET ev == args.base.enterprise_value
            share == result.terminal_value_share
        IN  /\ ~(HasFlag(FlagEnterpriseValue) /\ HasFlag(FlagTerminalDominant))
            /\ HasFlag(FlagEnterpriseValue) <=> (ev.k # "num" \/ ev.v <= 0)
            /\ HasFlag(FlagEnterpriseValue) =>
                   /\ share.k = "nan" \/ (share.k = "num" /\ 10 * share.v <= 7 * One)
                   /\ ~result.terminal_value_dominant

\* a negative enterprise value made of a negative terminal PV: the quotient
\* would be above 0.7, and only the enterprise-value flag is raised
C27_Witness ==
    /\ Diagnosed
    /\ args.base.enterprise_value.k = "num" /\ args.base.enterprise_value.v < 0
    /\ args.base.pv_terminal_value.k = "num"
    /\ 10 * args.base.pv_terminal_value.v < 7 * args.base.enterprise_value.v
    /\ HasFlag(FlagEnterpriseValue) /\ ~HasFlag(FlagTerminalDominant)
    /\ result.terminal_value_share.k = "nan"

EngineCalledByHandler == outcome \in {"200", "500"} /\ args # NoArgs

\* C28: the analyze endpoint calls the engine with exactly the growth_rate,
\* discount_rate and terminal_growth of the request where they were given
\* and let through by the validators, 0.0 included, and with 0.05, 0.10 and
\* 0.03 only where they were omitted.
C28_AssumptionsForwarded ==
    EngineCalledByHandler =>
        /\ args.fcf_growth_rate =
               IF caller.growth_rate.some THEN caller.growth_rate.v ELSE 5
        /\ args.wacc =
               IF caller.discount_rate.some THEN caller.discount_rate.v ELSE 10
        /\ args.terminal_growth =
               IF caller.terminal_growth.some THEN caller.terminal_growth.v ELSE 3

\* C29: after every call of the toggle endpoint the demo_mode it returned is
\* what data_fetcher.is_demo_mode() gives, also once api_limit_exceeded has
\* been set by get_popular_tickers.
C29_ToggleReportsEffectiveMode ==
    trace = <<"toggle_demo_mode">> => result.demo_mode = is_demo_mode(data_fetcher)

\* the requests of a client let through in the window of calc.period seconds
\* that ends with time t
LetThroughInWindow(client, t) ==
    Cardinality({i \in 1..Len(history[client]) :
                    t - calc.period < history[client][i] /\ history[client][i] <= t})

\* it is enough to look at the windows that end with a request let through
WindowsWithinLimit ==
    \A client \in Clients :
        \A t \in {history[client][i] : i \in 1..Len(history[client])} :
            LetThroughInWindow(client, t) <= calc.calls

\* a step in which the limiter answered a request of client
Answered(client) == clock' = clock /\ args' = [client |-> client, now |-> clock]

LimiterStep ==
    \A client \in Clients :
        Answered(client) =>
            /\ \A other \in Clients \ {client} :
                   RecordedOf(request_counts', other) = RecordedOf(request_counts, other)
            /\ outcome' = "rejected" =>
                   /\ history' = history
                   /\ Len(RecordedOf(request_counts', client))
                          <= Len(RecordedOf(request_counts, client))
                   /\ \A k \in 1..Len(RecordedOf(request_counts', client)) :
                          \E j \in 1..Len(RecordedOf(request_counts, client)) :
                              RecordedOf(request_counts', client)[k]
                                  = RecordedOf(request_counts, client)[j]
            /\ outcome' = "accepted" =>
                   /\ Len(RecordedOf(request_counts', client)) <= calc.calls
                   /\ RecordedOf(request_counts', client)[Len(RecordedOf(request_counts', client))]
                          = clock

\* C30: for non-decreasing times, the requests of one client let through in
\* any window of 60 seconds (of period seconds for the middleware), taken
\* without the instant at which it ends, are at most 30 (calls); a refused
\* request is not recorded, and a request of one client leaves the records
\* of the other clients as they were.
C30_SlidingWindowLimit == [][LimiterStep]_vars /\ []WindowsWithinLimit

\* the first client at its limit of 30 and refused, then let through again
\* once the window has passed, with a request of the second client recorded
C30_Witness ==
    /\ calc = MainLimiter
    /\ LetThrough("10.0.0.1") = RATE_LIMIT_MAX_REQUESTS + 1
    /\ LetThrough("10.0.0.2") = 1
    /\ outcome = "rejected" /\ args.client = "10.0.0.1"
    /\ Len(RecordedOf(request_counts, "10.0.0.1")) = RATE_LIMIT_MAX_REQUESTS

====
